---- MODULE Spec2Model ----
(***************************************************************************)
(* Model of the MINDMORPH adaptive learning-mode engine:                   *)
(*   - recommendLearningMode (Server/ml-services.js) and the               *)
(*     GET /recommend-mode handler (Server/ml-routes.js);                  *)
(*   - the POST /activity and POST /quiz-progress handlers of the server,  *)
(*     which write the activity_logs table;                                *)
(*   - calculateAdaptiveDifficulty, predictPerformance and                 *)
(*     analyzeEngagement (Server/ml-services.js) behind their routes, and  *)
(*     the activities.forEach loop of recommendLearningMode followed one   *)
(*     record at a time.                                                   *)
(*                                                                         *)
(* Numbers.  JavaScript numbers are modelled exactly: quiz scores, focus   *)
(* levels, reading times and playback counts are integers, an optional     *)
(* column is Null (<< >>) or Some(n) (<<n>>), engagement is kept in tenths *)
(* of a point (readingTime / 10 is then an integer) and every quotient     *)
(* (averages, weighted score, confidence) is a fraction <<num, den>> with  *)
(* den > 0, compared by cross-multiplication.  IEEE-754 rounding is not    *)
(* modelled.                                                               *)
(***************************************************************************)
EXTENDS Integers, Sequences, FiniteSets, TLC

VARIABLES
    activity_logs,  \* table activity_logs: rows, most recent session_date first
    quiz_results,   \* table quiz_results: rows, most recent completed_at first
    rec,            \* the running GET /recommend-mode request
    reqs,           \* the POST /activity and POST /quiz-progress requests
    call            \* the running request of one of the other analytics routes

vars == <<activity_logs, quiz_results, rec, reqs, call>>

----------------------------------------------------------------------------
(* Values *)

Null == << >>
Some(n) == <<n>>

\* a text column that holds SQL NULL
NullStr == "<null>"

\* the subject query parameter left out of the request
NoSubject == "<none>"

Min(a, b) == IF a <= b THEN a ELSE b

Abs(n) == IF n < 0 THEN 0 - n ELSE n

RECURSIVE Gcd(_, _)
Gcd(a, b) == IF b = 0 THEN a ELSE Gcd(b, a % b)

\* fractions <<num, den>>, den > 0, kept in lowest terms
Rat(n, d) == LET g == Gcd(Abs(n), d) IN <<n \div g, d \div g>>
RatGt(a, b) == a[1] * b[2] > b[1] * a[2]
RatGe(a, b) == a[1] * b[2] >= b[1] * a[2]
RatEq(a, b) == a[1] * b[2] = b[1] * a[2]
RatZero == <<0, 1>>

\* Math.round of the fraction n/d (d > 0): floor(n/d + 1/2)
Round(n, d) == (2 * n + d) \div (2 * d)

\* String.prototype.toLowerCase on the strings of the model
ToLower(s) ==
    CASE s = "Visual" -> "visual"
      [] s = "Audio" -> "audio"
      [] s = "Text" -> "text"
      [] s = "Math" -> "math"
      [] OTHER -> s

\* parseFloat(x) || 0 and parseInt(x) || 0 on a numeric column: NULL gives NaN, NaN gives 0
ParseOr0(v) == IF v = Null THEN 0 ELSE v[1]

----------------------------------------------------------------------------
(* recommendLearningMode: aggregation *)

\* Object.keys(modePerformance), in insertion order
Modes == <<"visual", "audio", "text">>
ModeSet == {Modes[i] : i \in 1..Len(Modes)}

\* one zeroed bucket of modePerformance; engagementScore is in tenths of a point
ZeroPerf ==
    [totalScore |-> 0, totalSessions |-> 0, avgFocus |-> 0, engagementScore |-> 0,
     totalReadingTime |-> 0, totalPlaybackTime |-> 0]

ZeroModePerformance == [m \in ModeSet |-> ZeroPerf]

\* mutant of Engagement: the text and audio values are not capped at 100
EngagementUncapped(mode, readingTime, playbackTime, focusLevel) ==
    IF mode = "text" /\ readingTime > 0 THEN readingTime
    ELSE IF mode = "audio" /\ playbackTime > 0 THEN playbackTime * 200
    ELSE IF mode = "visual" /\ focusLevel > 0 THEN focusLevel * 10
    ELSE 0

\* per-record engagement, in tenths of a point
Engagement(mode, readingTime, playbackTime, focusLevel) ==
    IF mode = "text" /\ readingTime > 0 THEN Min(1000, readingTime)
    ELSE IF mode = "audio" /\ playbackTime > 0 THEN Min(1000, playbackTime * 200)
    ELSE IF mode = "visual" /\ focusLevel > 0 THEN focusLevel * 10
    ELSE 0

\* activity.activity_type?.toLowerCase() || "visual"
ResolveMode(t) == IF t = NullStr THEN "visual" ELSE ToLower(t)

\* the body of activities.forEach
ProcessActivity(mp, activity) ==
    LET mode == ResolveMode(activity.activity_type)
    IN  IF mode \in ModeSet
        THEN LET quizScore == ParseOr0(activity.quiz_score)
                 focusLevel == ParseOr0(activity.focus_level)
                 readingTime == ParseOr0(activity.reading_time)
                 playbackTime == ParseOr0(activity.playback_time)
                 p == mp[mode]
             IN  [mp EXCEPT ![mode] =
                    [totalScore |-> p.totalScore + quizScore,
                     totalSessions |-> p.totalSessions + 1,
                     avgFocus |-> p.avgFocus + focusLevel,
                     engagementScore |-> p.engagementScore
                          + Engagement(mode, readingTime, playbackTime, focusLevel),
                     totalReadingTime |-> p.totalReadingTime + readingTime,
                     totalPlaybackTime |-> p.totalPlaybackTime + playbackTime]]
        ELSE mp

\* mutant of EstimatedFocus: > for >= at both thresholds
EstimatedFocusStrict(quizScore) ==
    IF quizScore > 80 THEN 85 ELSE IF quizScore > 60 THEN 70 ELSE 50

\* quizScore >= 80 ? 85 : quizScore >= 60 ? 70 : 50
EstimatedFocus(quizScore) ==
    IF quizScore >= 80 THEN 85 ELSE IF quizScore >= 60 THEN 70 ELSE 50

\* the body of quizResults.forEach
ProcessQuiz(mp, quiz) ==
    LET mode == ResolveMode(quiz.learning_type)
    IN  IF mode \in ModeSet
        THEN LET quizScore == ParseOr0(quiz.score)
                 p == mp[mode]
             IN  [mp EXCEPT ![mode] =
                    [p EXCEPT !.totalScore = @ + quizScore,
                              !.totalSessions = @ + 1,
                              !.avgFocus = @ + EstimatedFocus(quizScore),
                              !.engagementScore = @ + 10 * Min(100, quizScore)]]
        ELSE mp

RECURSIVE FoldActivities(_, _, _)
FoldActivities(mp, activities, i) ==
    IF i > Len(activities) THEN mp
    ELSE FoldActivities(ProcessActivity(mp, activities[i]), activities, i + 1)

RECURSIVE FoldQuizzes(_, _, _)
FoldQuizzes(mp, quizzes, i) ==
    IF i > Len(quizzes) THEN mp
    ELSE FoldQuizzes(ProcessQuiz(mp, quizzes[i]), quizzes, i + 1)

\* what a store read resolves to: { data, error }; data is null when error is set
Data(rows) == [isNull |-> FALSE, rows |-> rows, error |-> FALSE]
DataError == [isNull |-> TRUE, rows |-> << >>, error |-> TRUE]

\* !x || x.length === 0
NoRows(resp) == resp.isNull \/ Len(resp.rows) = 0

\* x?.length || 0
LengthOr0(resp) == IF resp.isNull THEN 0 ELSE Len(resp.rows)

\* modePerformance after both loops
Aggregate(activities, quizResults) ==
    LET afterActivities == FoldActivities(ZeroModePerformance, activities.rows, 1)
    IN  IF ~NoRows(quizResults)
        THEN FoldQuizzes(afterActivities, quizResults.rows, 1)
        ELSE afterActivities

----------------------------------------------------------------------------
(* recommendLearningMode: ranking, confidence and result *)

\* (avgScore * 0.4) + (avgFocus * 0.3) + (avgEngagement * 0.3), as a fraction
WeightedScore(perf) ==
    Rat(40 * perf.totalScore + 30 * perf.avgFocus + 3 * perf.engagementScore,
        100 * perf.totalSessions)

\* perf.totalScore / perf.totalSessions, as a fraction
AvgScore(perf) == Rat(perf.totalScore, perf.totalSessions)

\* mutant of RankInit: the running best starts at the last key instead of the first
RankInitText ==
    [bestMode |-> "text", bestScore |-> RatZero,
     bestPerformingMode |-> "text", bestPerformingScore |-> RatZero,
     modeScores |-> [m \in ModeSet |-> RatZero]]

\* let bestMode = "visual", bestScore = 0 and their bestPerforming twins
RankInit ==
    [bestMode |-> "visual", bestScore |-> RatZero,
     bestPerformingMode |-> "visual", bestPerformingScore |-> RatZero,
     modeScores |-> [m \in ModeSet |-> RatZero]]

\* mutant of RankStep: >= for > in the weighted comparison, so the last maximum wins
RankStepLastWins(r, mode, perf) ==
    IF perf.totalSessions > 0
    THEN LET weightedScore == WeightedScore(perf)
             avgScore == AvgScore(perf)
             better == RatGe(weightedScore, r.bestScore)
             betterQuiz == RatGt(avgScore, r.bestPerformingScore)
         IN  [bestMode |-> IF better THEN mode ELSE r.bestMode,
              bestScore |-> IF better THEN weightedScore ELSE r.bestScore,
              bestPerformingMode |-> IF betterQuiz THEN mode ELSE r.bestPerformingMode,
              bestPerformingScore |-> IF betterQuiz THEN avgScore ELSE r.bestPerformingScore,
              modeScores |-> [r.modeScores EXCEPT ![mode] = weightedScore]]
    ELSE [r EXCEPT !.modeScores[mode] = RatZero]

\* the body of Object.keys(modePerformance).forEach
RankStep(r, mode, perf) ==
    IF perf.totalSessions > 0
    THEN LET weightedScore == WeightedScore(perf)
             avgScore == AvgScore(perf)
             better == RatGt(weightedScore, r.bestScore)
             betterQuiz == RatGt(avgScore, r.bestPerformingScore)
         IN  [bestMode |-> IF better THEN mode ELSE r.bestMode,
              bestScore |-> IF better THEN weightedScore ELSE r.bestScore,
              bestPerformingMode |-> IF betterQuiz THEN mode ELSE r.bestPerformingMode,
              bestPerformingScore |-> IF betterQuiz THEN avgScore ELSE r.bestPerformingScore,
              modeScores |-> [r.modeScores EXCEPT ![mode] = weightedScore]]
    ELSE [r EXCEPT !.modeScores[mode] = RatZero]

RECURSIVE RankFrom(_, _, _)
RankFrom(r, mp, i) ==
    IF i > Len(Modes) THEN r
    ELSE RankFrom(RankStep(r, Modes[i], mp[Modes[i]]), mp, i + 1)

RankModes(mp) == RankFrom(RankInit, mp, 1)

\* Math.min(0.3 + (totalSessions * 0.01), 0.4), in hundredths
DataQuality(totalSessions) == Min(30 + totalSessions, 40)

\* Math.min(0.3 + (recommendedSessions * 0.02), 0.4), in hundredths
ModeConfidence(recommendedSessions) == Min(30 + 2 * recommendedSessions, 40)

\* mutant of ScoreConfidence: without the 0.1 given to a bestScore that is not above 0
ScoreConfidenceNoDefault(bestScore) ==
    IF RatGe(bestScore, <<100, 1>>) THEN <<1, 5>>
    ELSE Rat(bestScore[1], 500 * bestScore[2])

\* bestScore > 0 ? Math.min(0.2, bestScore / 500) : 0.1, as a fraction
ScoreConfidence(bestScore) ==
    IF RatGt(bestScore, RatZero)
    THEN IF RatGe(bestScore, <<100, 1>>) THEN <<1, 5>>
         ELSE Rat(bestScore[1], 500 * bestScore[2])
    ELSE <<1, 10>>

\* mutant of Confidence: the sum is returned without the cap at 0.95
ConfidenceUncapped(totalSessions, recommendedSessions, bestScore) ==
    LET sc == ScoreConfidence(bestScore)
        hundredths == DataQuality(totalSessions) + ModeConfidence(recommendedSessions)
    IN  Rat(hundredths * sc[2] + 100 * sc[1], 100 * sc[2])

\* Math.min(dataQuality + modeConfidence + scoreConfidence, 0.95), as a fraction
Confidence(totalSessions, recommendedSessions, bestScore) ==
    LET sc == ScoreConfidence(bestScore)
        hundredths == DataQuality(totalSessions) + ModeConfidence(recommendedSessions)
        sum == Rat(hundredths * sc[2] + 100 * sc[1], 100 * sc[2])
    IN  IF RatGt(sum, <<19, 20>>) THEN <<19, 20>> ELSE sum

\* Math.round(sum / totalSessions) when totalSessions > 0, else 0
RoundedAvg(sum, totalSessions) ==
    IF totalSessions > 0 THEN Round(sum, totalSessions) ELSE 0

\* one entry of the returned modeStats
ModeStat(perf) ==
    [totalScore |-> perf.totalScore, totalSessions |-> perf.totalSessions,
     avgFocus |-> RoundedAvg(perf.avgFocus, perf.totalSessions)]

ZeroModeStats ==
    [m \in ModeSet |-> [totalScore |-> 0, totalSessions |-> 0, avgFocus |-> 0]]

\* the result returned for a user without history
NoHistoryResult ==
    [recommendedMode |-> "visual", bestPerformingMode |-> "visual",
     confidence |-> <<3, 10>>,
     reasoning |-> [template |-> "No learning history found"],
     modeStats |-> ZeroModeStats]

\* the result returned by the catch block
CatchResult ==
    [recommendedMode |-> "visual", bestPerformingMode |-> "visual",
     confidence |-> <<3, 10>>,
     reasoning |-> [template |-> "Unable to analyze learning history"],
     modeStats |-> ZeroModeStats]

\* the facts the reasoning template is filled with
Reasoning(totalSessions, quizResults, subject, bestMode, stats) ==
    [template |-> "Based on",
     totalSessions |-> totalSessions,
     quizResults |-> IF ~NoRows(quizResults) THEN Len(quizResults.rows) ELSE 0,
     subject |-> subject,
     bestMode |-> bestMode,
     avgScore |-> RoundedAvg(stats.totalScore, stats.totalSessions),
     avgFocus |-> RoundedAvg(stats.avgFocus, stats.totalSessions),
     avgReadingTime |->
        IF bestMode = "text" /\ stats.totalReadingTime > 0
        THEN RoundedAvg(stats.totalReadingTime, stats.totalSessions) ELSE 0,
     playbacks |->
        IF bestMode = "audio" /\ stats.totalPlaybackTime > 0
        THEN stats.totalPlaybackTime ELSE 0]

\* mutant of BestPerformingMode: null when no average quiz score is above 0
BestPerformingModeOrNull(r) ==
    IF RatGt(r.bestPerformingScore, RatZero) THEN r.bestPerformingMode ELSE NullStr

\* mutant of BestPerformingMode: the tracked mode is returned without the fallback
BestPerformingModeNoFallback(r) == r.bestPerformingMode

\* bestPerformingScore > 0 ? bestPerformingMode : bestMode
BestPerformingMode(r) ==
    IF RatGt(r.bestPerformingScore, RatZero) THEN r.bestPerformingMode ELSE r.bestMode

\* mutant of ComputeRecommendation: the early return for a user without history is gone
ComputeWithoutEarlyReturn(activities, quizResults, subject) ==
    IF activities.isNull
    THEN CatchResult
    ELSE LET mp == Aggregate(activities, quizResults)
             r == RankModes(mp)
             totalSessions == LengthOr0(activities) + LengthOr0(quizResults)
             recommendedSessions == mp[r.bestMode].totalSessions
         IN  [recommendedMode |-> r.bestMode,
              bestPerformingMode |->
                  IF RatGt(r.bestPerformingScore, RatZero)
                  THEN r.bestPerformingMode ELSE r.bestMode,
              confidence |-> Confidence(totalSessions, recommendedSessions, r.bestScore),
              reasoning |-> Reasoning(totalSessions, quizResults, subject, r.bestMode,
                                      mp[r.bestMode]),
              modeStats |-> [m \in ModeSet |-> ModeStat(mp[m])]]

\* the statements of recommendLearningMode after the two loops: ranking, confidence,
\* reasoning and the returned object
RankedResult(mp, activities, quizResults, subject) ==
    LET r == RankModes(mp)
        totalSessions == LengthOr0(activities) + LengthOr0(quizResults)
        recommendedSessions == mp[r.bestMode].totalSessions
    IN  [recommendedMode |-> r.bestMode,
         bestPerformingMode |-> BestPerformingMode(r),
         confidence |-> Confidence(totalSessions, recommendedSessions, r.bestScore),
         reasoning |-> Reasoning(totalSessions, quizResults, subject, r.bestMode,
                                 mp[r.bestMode]),
         modeStats |-> [m \in ModeSet |-> ModeStat(mp[m])]]

\* the statements of recommendLearningMode after both store reads have resolved
ComputeRecommendation(activities, quizResults, subject) ==
    IF NoRows(activities) /\ NoRows(quizResults)
    THEN NoHistoryResult
    ELSE IF activities.isNull
    THEN CatchResult   \* activities.forEach on null throws a TypeError
    ELSE RankedResult(Aggregate(activities, quizResults), activities, quizResults, subject)

----------------------------------------------------------------------------
(* The store *)

\* the authenticated user of every modelled request, and another user of the platform
UserId == "u1"
OtherUser == "u2"

\* .eq("user_id", userId), then .eq("subject", subject) when `if (subject)` holds;
\* rows come back in table order (most recent first)
SelectForUser(table, userId, subject) ==
    SelectSeq(table, LAMBDA row :
        /\ row.user_id = userId
        /\ (subject # NoSubject => row.subject = subject))

----------------------------------------------------------------------------
(* GET /recommend-mode -> recommendLearningMode(userId, subject) *)

NoResult == [recommendedMode |-> "<pending>"]
Pending == [isNull |-> TRUE, rows |-> << >>, error |-> FALSE]

\* no request of the other analytics routes is running
NoCall == [fn |-> "none", pc |-> "idle"]

RecIdle ==
    [pc |-> "idle", subject |-> NoSubject, activities |-> Pending,
     quizResults |-> Pending, modePerformance |-> ZeroModePerformance,
     result |-> NoResult, thrown |-> FALSE, status |-> 0]

\* mutant of CatchBlock: the error is rethrown to the route handler
CatchBlockRethrows == [result |-> CatchResult, thrown |-> TRUE]

\* catch (error) { console.error(...); return { ...fallback... } }: nothing is rethrown
CatchBlock == [result |-> CatchResult, thrown |-> FALSE]

\* the route handler calls recommendLearningMode(userId, subject)
RecCall(subject) ==
    /\ rec.pc = "idle"
    /\ rec' = [rec EXCEPT !.pc = "fetchActivities", !.subject = subject]
    /\ UNCHANGED <<activity_logs, quiz_results, reqs, call>>

\* `await query` resolves with data
RecFetchActivitiesOk ==
    /\ rec.pc = "fetchActivities"
    /\ rec' = [rec EXCEPT
                 !.pc = "fetchQuiz",
                 !.activities = Data(SelectForUser(activity_logs, UserId, rec.subject))]
    /\ UNCHANGED <<activity_logs, quiz_results, reqs, call>>

\* `await query` resolves with an error: `if (error) throw error` lands in the catch block
RecFetchActivitiesError ==
    /\ rec.pc = "fetchActivities"
    /\ rec' = [rec EXCEPT
                 !.pc = "returned",
                 !.activities = DataError,
                 !.result = CatchBlock.result,
                 !.thrown = CatchBlock.thrown]
    /\ UNCHANGED <<activity_logs, quiz_results, reqs, call>>

\* `await quizQuery` resolves with data
RecFetchQuizOk ==
    /\ rec.pc = "fetchQuiz"
    /\ rec' = [rec EXCEPT
                 !.pc = "compute",
                 !.quizResults = Data(SelectForUser(quiz_results, UserId, rec.subject))]
    /\ UNCHANGED <<activity_logs, quiz_results, reqs, call>>

\* mutant of RecFetchQuizError: `if (quizError) throw quizError`, as for the activities
RecFetchQuizErrorThrows ==
    /\ rec.pc = "fetchQuiz"
    /\ rec' = [rec EXCEPT
                 !.pc = "returned",
                 !.quizResults = DataError,
                 !.result = CatchResult]
    /\ UNCHANGED <<activity_logs, quiz_results, reqs, call>>

\* `await quizQuery` resolves with an error: console.warn, and the call goes on
RecFetchQuizError ==
    /\ rec.pc = "fetchQuiz"
    /\ rec' = [rec EXCEPT !.pc = "compute", !.quizResults = DataError]
    /\ UNCHANGED <<activity_logs, quiz_results, reqs, call>>

\* the synchronous rest of recommendLearningMode
RecCompute ==
    /\ rec.pc = "compute"
    /\ rec' = [rec EXCEPT
                 !.pc = "returned",
                 !.modePerformance =
                     IF (NoRows(rec.activities) /\ NoRows(rec.quizResults))
                          \/ rec.activities.isNull
                     THEN @
                     ELSE Aggregate(rec.activities, rec.quizResults),
                 !.result = ComputeRecommendation(rec.activities, rec.quizResults,
                                                  rec.subject)]
    /\ UNCHANGED <<activity_logs, quiz_results, reqs, call>>

\* the route handler: res.json(...) on a returned value, res.status(500) in its own catch
RecRespond ==
    /\ rec.pc = "returned"
    /\ rec' = [rec EXCEPT !.pc = "done", !.status = IF rec.thrown THEN 500 ELSE 200]
    /\ UNCHANGED <<activity_logs, quiz_results, reqs, call>>

----------------------------------------------------------------------------
(* Histories the recommendation is computed from *)

\* the number of distinct kinds of activity record and of quiz result in a history
MaxActivityKinds == 2
MaxQuizKinds == 1

\* the number of records of one kind in a long history
ManySessions == 10

ActivityFields(qs, fl, rt, pt) ==
    [quiz_score |-> qs, focus_level |-> fl, reading_time |-> rt, playback_time |-> pt]

Absent == ActivityFields(Null, Null, Some(0), Some(0))
Good == ActivityFields(Some(90), Some(80), Some(600), Some(3))
Engaged == ActivityFields(Null, Some(60), Some(2000), Some(6))
Negative == ActivityFields(Some(-20), Some(-10), Some(-5), Some(-1))
Perfect == ActivityFields(Some(100), Some(100), Some(1000), Some(5))
Over == ActivityFields(Some(150), Some(150), Some(5000), Some(9))

ActivityRow(user, subject, type, f) ==
    [user_id |-> user, subject |-> subject, activity_type |-> type,
     quiz_score |-> f.quiz_score, focus_level |-> f.focus_level,
     reading_time |-> f.reading_time, playback_time |-> f.playback_time]

\* kinds of activity record: in range, out of range, absent, unrecognised modality,
\* another subject, another user
ActivityKinds ==
    {ActivityRow(UserId, "math", t, Good) : t \in {"visual", "audio", "text"}}
    \cup {ActivityRow(UserId, "math", t, Perfect) : t \in {"visual", "text"}}
    \cup {ActivityRow(UserId, "math", "visual", Negative),
          ActivityRow(UserId, "math", "visual", Absent),
          ActivityRow(UserId, "math", "audio", Engaged),
          ActivityRow(UserId, "math", "text", Over),
          ActivityRow(UserId, "math", "Audio", Good),
          ActivityRow(UserId, "math", "mixed", Good),
          ActivityRow(UserId, "math", NullStr, Good),
          ActivityRow(UserId, "physics", "text", Good),
          ActivityRow(OtherUser, "math", "text", Perfect)}

\* a history is a sequence of groups of equal rows.  Several rows of one triple are a
\* state of the table: neither handler validates the numbers it stores, and overlapping
\* POST requests insert a triple more than once (C6_OneRecordPerTriple).
ActivityGroups ==
    {[row |-> r, n |-> 1] : r \in ActivityKinds}
    \cup {[row |-> ActivityRow(UserId, "math", "visual", Perfect), n |-> ManySessions]}

QuizRow(user, subject, type, score) ==
    [user_id |-> user, subject |-> subject, learning_type |-> type, score |-> Some(score)]

QuizGroups ==
    {[row |-> QuizRow(UserId, "math", "visual", 120), n |-> 1],
     [row |-> QuizRow(UserId, "math", "audio", 70), n |-> 1],
     [row |-> QuizRow(UserId, "math", "text", 40), n |-> ManySessions]}

RECURSIVE Expand(_)
\* the rows of a sequence of groups, each row repeated n times
Expand(groups) ==
    IF groups = << >> THEN << >>
    ELSE [i \in 1..groups[1].n |-> groups[1].row] \o Expand(Tail(groups))

SeqsUpTo(S, n) == UNION {[1..k -> S] : k \in 0..n}

\* the table with ids given in order
WithIds(rows) == [i \in 1..Len(rows) |-> [id |-> i] @@ rows[i]]

Subjects == {NoSubject, "math"}

----------------------------------------------------------------------------
(* Specification of the recommendation over a stored history *)

InitRec ==
    /\ activity_logs \in {WithIds(Expand(g)) : g \in SeqsUpTo(ActivityGroups, MaxActivityKinds)}
    /\ quiz_results \in {Expand(g) : g \in SeqsUpTo(QuizGroups, MaxQuizKinds)}
    /\ rec = RecIdle
    /\ reqs = << >>
    /\ call = NoCall

NextRec ==
    \/ \E subject \in Subjects : RecCall(subject)
    \/ RecFetchActivitiesOk
    \/ RecFetchActivitiesError
    \/ RecFetchQuizOk
    \/ RecFetchQuizError
    \/ RecCompute
    \/ RecRespond

SpecRec == InitRec /\ [][NextRec]_vars

----------------------------------------------------------------------------
(* POST /activity and POST /quiz-progress *)

\* the number of POST requests of one run
MaxRequests == 3

Requests == 1..MaxRequests

\* x || 0 on a number of the request body or of a fetched row
Or0(v) == IF v = Null THEN 0 ELSE v[1]

\* x || null on a number of the request body: 0 is falsy
OrNull(v) == IF v = Null \/ v = Some(0) THEN Null ELSE v

NoRecord == [found |-> FALSE]
Found(row) == [found |-> TRUE] @@ row

ReqIdle ==
    [kind |-> "none", pc |-> "idle", body |-> [subject |-> NullStr],
     existingRecord |-> NoRecord, status |-> 0]

ActivityBody(subject, type, rt, pt, qs, fl) ==
    [subject |-> subject, activity_type |-> type, reading_time |-> rt,
     playback_time |-> pt, quiz_score |-> qs, focus_level |-> fl]

\* request bodies of POST /activity; a field left out of the body is Null / NullStr
ActivityBodies ==
    {ActivityBody("math", "text", Some(5), Null, Null, Null),
     ActivityBody("math", "text", Some(10), Null, Some(90), Some(80)),
     ActivityBody("math", "text", Null, Null, Some(0), Some(0)),
     ActivityBody("math", "audio", Null, Some(1), Some(60), Null),
     ActivityBody("math", NullStr, Some(5), Null, Null, Null)}

QuizBody(subject, type, total, correct, score, rt, plays) ==
    [subject |-> subject, learning_type |-> type, total_questions |-> total,
     correct_answers |-> correct, score |-> score,
     reading_time_seconds |-> rt, audio_play_count |-> plays]

\* request bodies of POST /quiz-progress (each with a responses array)
QuizBodies ==
    {QuizBody("math", "text", 10, 7, Some(70), Some(7), Null),
     QuizBody("math", NullStr, 4, 3, Null, Null, Some(2)),
     QuizBody("math", "audio", 0, 0, Null, Null, Null)}

\* .eq("user_id", ..).eq("subject", ..).eq("activity_type", ..)
Matching(table, userId, subject, type) ==
    SelectSeq(table, LAMBDA row :
        row.user_id = userId /\ row.subject = subject /\ row.activity_type = type)

\* .maybeSingle(): no row gives data null; one row gives the row; several rows give data
\* null with error PGRST116, which both handlers let pass as "no rows returned"
MaybeSingle(rows) == IF Len(rows) = 1 THEN Found(rows[1]) ELSE NoRecord

\* session_date is set to now by every write: the written row becomes the most recent
MoveToFront(table, id, newRow) ==
    <<newRow>> \o SelectSeq(table, LAMBDA row : row.id # id)

RowWithId(table, id) == (CHOOSE i \in 1..Len(table) : table[i].id = id)

\* .update(updateData).eq("id", id): only the columns of updateData change
UpdateById(table, id, updateData) ==
    LET old == table[RowWithId(table, id)]
    IN  MoveToFront(table, id, updateData @@ old)

\* .insert([row]): the store gives the row its id
Insert(table, row) == <<[id |-> Len(table) + 1] @@ row>> \o table

\* the request passes authenticateToken and the handler reads its body
ActivityReceive(r, body) ==
    /\ reqs[r].pc = "idle"
    /\ \A q \in 1..(r - 1) : reqs[q].pc # "idle"
    /\ reqs' = [reqs EXCEPT ![r] =
                  IF body.subject = NullStr \/ body.activity_type = NullStr
                  THEN [@ EXCEPT !.kind = "activity", !.body = body,
                                 !.pc = "done", !.status = 400]
                  ELSE [@ EXCEPT !.kind = "activity", !.body = body, !.pc = "select"]]
    /\ UNCHANGED <<activity_logs, quiz_results, rec, call>>

\* await supabase.from("activity_logs").select(...).maybeSingle()
ActivitySelect(r) ==
    /\ reqs[r].kind = "activity" /\ reqs[r].pc = "select"
    /\ reqs' = [reqs EXCEPT ![r] =
                  [@ EXCEPT !.pc = "write",
                            !.existingRecord =
                                MaybeSingle(Matching(activity_logs, UserId, reqs[r].body.subject,
                                                     reqs[r].body.activity_type))]]
    /\ UNCHANGED <<activity_logs, quiz_results, rec, call>>

\* updateData of POST /activity
ActivityUpdateData(existingRecord, body) ==
    [reading_time |-> Some(Or0(existingRecord.reading_time) + Or0(body.reading_time)),
     playback_time |-> Some(Or0(existingRecord.playback_time) + Or0(body.playback_time))]
    @@ (IF body.quiz_score # Null THEN [quiz_score |-> body.quiz_score] ELSE << >>)
    @@ (IF body.focus_level # Null THEN [focus_level |-> body.focus_level] ELSE << >>)

\* activityData of POST /activity
ActivityInsertData(body) ==
    [user_id |-> UserId, subject |-> body.subject, activity_type |-> body.activity_type,
     quiz_score |-> OrNull(body.quiz_score), focus_level |-> OrNull(body.focus_level),
     reading_time |-> Some(Or0(body.reading_time)),
     playback_time |-> Some(Or0(body.playback_time))]

\* the update or the insert of POST /activity, and the response
ActivityWrite(r) ==
    /\ reqs[r].kind = "activity" /\ reqs[r].pc = "write"
    /\ IF reqs[r].existingRecord.found
       THEN /\ activity_logs' =
                 UpdateById(activity_logs, reqs[r].existingRecord.id,
                            ActivityUpdateData(reqs[r].existingRecord, reqs[r].body))
            /\ reqs' = [reqs EXCEPT ![r] = [@ EXCEPT !.pc = "done", !.status = 200]]
       ELSE /\ activity_logs' = Insert(activity_logs, ActivityInsertData(reqs[r].body))
            /\ reqs' = [reqs EXCEPT ![r] = [@ EXCEPT !.pc = "done", !.status = 201]]
    /\ UNCHANGED <<quiz_results, rec, call>>

\* score !== undefined ? parseFloat(score) : (correct_answers / total_questions) * 100
CalculatedScore(body) ==
    IF body.score # Null THEN <<body.score[1], 1>>
    ELSE Rat(100 * body.correct_answers, body.total_questions)

\* calculatedScore >= 80 ? 85 : calculatedScore >= 60 ? 70 : 50
QuizFocusLevel(score) ==
    IF RatGe(score, <<80, 1>>) THEN 85 ELSE IF RatGe(score, <<60, 1>>) THEN 70 ELSE 50

\* learning_type || "mixed"
QuizActivityType(body) == IF body.learning_type = NullStr THEN "mixed" ELSE body.learning_type

QuizProgressReceive(r, body) ==
    /\ reqs[r].pc = "idle"
    /\ \A q \in 1..(r - 1) : reqs[q].pc # "idle"
    /\ reqs' = [reqs EXCEPT ![r] =
                  IF body.subject = NullStr \/ body.total_questions = 0
                  THEN [@ EXCEPT !.kind = "quiz-progress", !.body = body,
                                 !.pc = "done", !.status = 400]
                  ELSE [@ EXCEPT !.kind = "quiz-progress", !.body = body, !.pc = "select"]]
    /\ UNCHANGED <<activity_logs, quiz_results, rec, call>>

QuizProgressSelect(r) ==
    /\ reqs[r].kind = "quiz-progress" /\ reqs[r].pc = "select"
    /\ reqs' = [reqs EXCEPT ![r] =
                  [@ EXCEPT !.pc = "write",
                            !.existingRecord =
                                MaybeSingle(Matching(activity_logs, UserId, reqs[r].body.subject,
                                                     QuizActivityType(reqs[r].body)))]]
    /\ UNCHANGED <<activity_logs, quiz_results, rec, call>>

\* existingRecord.reading_time || readingTime: 0 is falsy
Or(a, b) == IF a = Null \/ a = Some(0) THEN b ELSE a

\* updateData of POST /quiz-progress
QuizUpdateData(existingRecord, body) ==
    LET score == CalculatedScore(body)
    IN  [quiz_score |-> Some(Round(score[1], score[2])),
         focus_level |-> Some(QuizFocusLevel(score)),
         reading_time |-> Or(existingRecord.reading_time, Some(Or0(body.reading_time_seconds))),
         playback_time |-> Or(existingRecord.playback_time, Some(Or0(body.audio_play_count)))]

\* insertData of POST /quiz-progress
QuizInsertData(body) ==
    LET score == CalculatedScore(body)
    IN  [user_id |-> UserId, subject |-> body.subject,
         activity_type |-> QuizActivityType(body),
         quiz_score |-> Some(Round(score[1], score[2])),
         focus_level |-> Some(QuizFocusLevel(score)),
         reading_time |-> Some(Or0(body.reading_time_seconds)),
         playback_time |-> Some(Or0(body.audio_play_count))]

\* the update or the insert of POST /quiz-progress into activity_logs
QuizProgressWrite(r) ==
    /\ reqs[r].kind = "quiz-progress" /\ reqs[r].pc = "write"
    /\ IF reqs[r].existingRecord.found
       THEN /\ activity_logs' =
                 UpdateById(activity_logs, reqs[r].existingRecord.id,
                            QuizUpdateData(reqs[r].existingRecord, reqs[r].body))
            /\ reqs' = [reqs EXCEPT ![r] = [@ EXCEPT !.pc = "done", !.status = 200]]
       ELSE /\ activity_logs' = Insert(activity_logs, QuizInsertData(reqs[r].body))
            /\ reqs' = [reqs EXCEPT ![r] = [@ EXCEPT !.pc = "done", !.status = 201]]
    /\ UNCHANGED <<quiz_results, rec, call>>

\* a store call of a handler resolves with an error: the handler answers 500
StoreError(r) ==
    /\ reqs[r].pc \in {"select", "write"}
    /\ reqs' = [reqs EXCEPT ![r] = [@ EXCEPT !.pc = "done", !.status = 500]]
    /\ UNCHANGED <<activity_logs, quiz_results, rec, call>>

----------------------------------------------------------------------------
(* Specification of the handlers that write activity_logs *)

Init ==
    /\ activity_logs = << >>
    /\ quiz_results = << >>
    /\ rec = RecIdle
    /\ reqs = [r \in Requests |-> ReqIdle]
    /\ call = NoCall

Next ==
    \E r \in Requests :
        \/ \E body \in ActivityBodies : ActivityReceive(r, body)
        \/ ActivitySelect(r)
        \/ ActivityWrite(r)
        \/ \E body \in QuizBodies : QuizProgressReceive(r, body)
        \/ QuizProgressSelect(r)
        \/ QuizProgressWrite(r)
        \/ StoreError(r)

Spec == Init /\ [][Next]_vars

----------------------------------------------------------------------------
(* calculateAdaptiveDifficulty and POST /adaptive-difficulty *)

\* the longest recentScores array of a request body
MaxScores == 3

\* a field the JSON body does not carry
Undefined == "<undefined>"

RECURSIVE SumSeq(_)
\* numbers.reduce((a, b) => a + b, 0)
SumSeq(xs) == IF xs = << >> THEN 0 ELSE Head(xs) + SumSeq(Tail(xs))

\* recentScores of a body: no field, JSON null, an array of numbers, or a JSON object
\* (a value that is truthy and has neither length nor reduce)
NoScores == [kind |-> "undefined"]
NullScores == [kind |-> "null"]
ObjectScores == [kind |-> "object"]
ArrayOf(items) == [kind |-> "array", items |-> items]

\* scores around the thresholds 50, 60, 80 and 85, and out of the range 0..100
ScoreValues == {-5, 40, 49, 50, 60, 70, 72, 80, 85, 88, 90, 100}

RecentScores ==
    {NoScores, NullScores, ObjectScores}
    \cup {ArrayOf(items) : items \in SeqsUpTo(ScoreValues, MaxScores)}

\* currentDifficulty of a body: no field, JSON null, a level, or any other string
Difficulties == {Undefined, NullStr, "medium", "hard", "expert"}

AdaptiveBodies ==
    {[recentScores |-> rs, currentDifficulty |-> cd] : rs \in RecentScores, cd \in Difficulties}

\* the thrown TypeError of recentScores.reduce on a value that is not an array
TypeError == "<TypeError>"

\* mutant of CalculateAdaptiveDifficulty: lastScore is the last element of recentScores
CalculateAdaptiveDifficultyOldest(recentScores, currentDifficulty) ==
    LET current == IF currentDifficulty = Undefined THEN "medium" ELSE currentDifficulty
    IN  IF recentScores.kind \in {"undefined", "null"} THEN current
        ELSE IF recentScores.kind = "object" THEN TypeError
        ELSE IF Len(recentScores.items) = 0 THEN current
        ELSE LET sum == SumSeq(recentScores.items)
                 n == Len(recentScores.items)
                 lastScore == recentScores.items[n]
             IN  IF sum > 85 * n /\ lastScore > 80 THEN "hard"
                 ELSE IF sum < 60 * n \/ lastScore < 50 THEN "easy"
                 ELSE "medium"

\* calculateAdaptiveDifficulty(recentScores, currentDifficulty = "medium");
\* avgScore > 85 is sum > 85 * length, avgScore < 60 is sum < 60 * length
CalculateAdaptiveDifficulty(recentScores, currentDifficulty) ==
    LET current == IF currentDifficulty = Undefined THEN "medium" ELSE currentDifficulty
    IN  IF recentScores.kind \in {"undefined", "null"} THEN current
        ELSE IF recentScores.kind = "object" THEN TypeError
        ELSE IF Len(recentScores.items) = 0 THEN current
        ELSE LET sum == SumSeq(recentScores.items)
                 n == Len(recentScores.items)
                 lastScore == recentScores.items[1]
             IN  IF sum > 85 * n /\ lastScore > 80 THEN "hard"
                 ELSE IF sum < 60 * n \/ lastScore < 50 THEN "easy"
                 ELSE "medium"

\* the handler is entered (authenticateToken has set req.userId) and reads the body
AdaptiveReceive ==
    /\ call.pc = "idle"
    /\ \E body \in AdaptiveBodies :
          call' = [fn |-> "adaptive-difficulty", pc |-> "received", body |-> body,
                   difficulty |-> Undefined, status |-> 0]
    /\ UNCHANGED <<activity_logs, quiz_results, rec, reqs>>

\* calculateAdaptiveDifficulty returns: res.json({ success: true, difficulty })
AdaptiveRespond ==
    /\ call.fn = "adaptive-difficulty" /\ call.pc = "received"
    /\ LET difficulty == CalculateAdaptiveDifficulty(call.body.recentScores,
                                                    call.body.currentDifficulty)
       IN  /\ difficulty # TypeError
           /\ call' = [call EXCEPT !.pc = "done", !.difficulty = difficulty, !.status = 200]
    /\ UNCHANGED <<activity_logs, quiz_results, rec, reqs>>

\* calculateAdaptiveDifficulty throws: the handler's catch answers 500
AdaptiveFail ==
    /\ call.fn = "adaptive-difficulty" /\ call.pc = "received"
    /\ CalculateAdaptiveDifficulty(call.body.recentScores, call.body.currentDifficulty)
         = TypeError
    /\ call' = [call EXCEPT !.pc = "done", !.status = 500]
    /\ UNCHANGED <<activity_logs, quiz_results, rec, reqs>>

InitAdaptive ==
    /\ activity_logs = << >>
    /\ quiz_results = << >>
    /\ rec = RecIdle
    /\ reqs = << >>
    /\ call = NoCall

NextAdaptive ==
    \/ AdaptiveReceive
    \/ AdaptiveRespond
    \/ AdaptiveFail

SpecAdaptive == InitAdaptive /\ [][NextAdaptive]_vars

----------------------------------------------------------------------------
(* predictPerformance and POST /predict-performance *)

\* .limit(30)
PredictLimit == 30

\* the first n elements of xs, all of xs when it is shorter
Take(xs, n) == SubSeq(xs, 1, Min(n, Len(xs)))

\* activities.map((a) => a.quiz_score).filter((s) => s !== null && s !== undefined)
RECURSIVE QuizScores(_)
QuizScores(activities) ==
    IF activities = << >> THEN << >>
    ELSE IF Head(activities).quiz_score = Null THEN QuizScores(Tail(activities))
    ELSE <<Head(activities).quiz_score[1]>> \o QuizScores(Tail(activities))

RECURSIVE SumSquares(_)
SumSquares(xs) == IF xs = << >> THEN 0 ELSE Head(xs) * Head(xs) + SumSquares(Tail(xs))

\* calculateVariance(numbers), as a fraction: the mean of the squared differences from
\* the mean, (n * sum(x^2) - sum(x)^2) / n^2
CalculateVariance(numbers) ==
    LET n == Len(numbers)
        sum == SumSeq(numbers)
    IN  Rat(n * SumSquares(numbers) - sum * sum, n * n)

\* mutant of PredictConfidence: 1 - variance / 1000 without the two bounds
PredictConfidenceUnclamped(scores) ==
    LET variance == CalculateVariance(scores)
    IN  Rat(1000 * variance[2] - variance[1], 1000 * variance[2])

\* Math.max(0.3, Math.min(0.9, 1 - variance / 1000)), as a fraction
PredictConfidence(scores) ==
    LET variance == CalculateVariance(scores)
        raw == Rat(1000 * variance[2] - variance[1], 1000 * variance[2])
    IN  IF RatGt(<<3, 10>>, raw) THEN <<3, 10>>
        ELSE IF RatGt(raw, <<9, 10>>) THEN <<9, 10>>
        ELSE raw

\* scores.slice(0, 5).reduce(...) / Math.min(5, scores.length)
RecentAvg(scores) == Rat(SumSeq(Take(scores, 5)), Min(5, Len(scores)))

\* scores.slice(5, 10).reduce(...) / Math.min(5, scores.length - 5) when
\* scores.length > 5, else recentAvg
OlderAvg(scores) ==
    IF Len(scores) > 5
    THEN Rat(SumSeq(SubSeq(scores, 6, Min(10, Len(scores)))), Min(5, Len(scores) - 5))
    ELSE RecentAvg(scores)

\* recentAvg + trend * 0.5 with trend = recentAvg - olderAvg, as a fraction
Extrapolated(scores) ==
    LET r == RecentAvg(scores)
        o == OlderAvg(scores)
    IN  Rat(3 * r[1] * o[2] - o[1] * r[2], 2 * r[2] * o[2])

\* mutant of PredictedScore: the extrapolation is rounded without being clamped
PredictedScoreUnclamped(scores) ==
    LET p == Extrapolated(scores) IN Round(p[1], p[2])

\* Math.round(Math.max(0, Math.min(100, recentAvg + trend * 0.5)))
PredictedScore(scores) ==
    LET p == Extrapolated(scores)
    IN  IF RatGt(RatZero, p) THEN 0
        ELSE IF RatGt(p, <<100, 1>>) THEN 100
        ELSE Round(p[1], p[2])

\* predictPerformance has not returned yet
NoPrediction == [pending |-> TRUE]

\* the three fixed results
InsufficientData == [predictedScore |-> 65, confidence |-> <<3, 10>>,
                     factors |-> <<"Insufficient historical data">>]
NoScoreData == [predictedScore |-> 65, confidence |-> <<3, 10>>, factors |-> << >>]
PredictionError == [predictedScore |-> 65, confidence |-> <<3, 10>>,
                    factors |-> <<"Error in prediction">>]

\* the statements of predictPerformance after the store read has resolved with data
ComputePrediction(activities) ==
    IF Len(activities) < 5 THEN InsufficientData
    ELSE LET scores == QuizScores(activities)
         IN  IF Len(scores) = 0 THEN NoScoreData
             ELSE LET r == RecentAvg(scores)
                      o == OlderAvg(scores)
                  IN  [predictedScore |-> PredictedScore(scores),
                       confidence |-> PredictConfidence(scores),
                       factors |-> <<[recentAverage |-> Round(r[1], r[2])],
                                     IF RatGt(r, o) THEN "improving" ELSE "declining",
                                     [dataPoints |-> Len(scores)]>>]

\* the route handler calls predictPerformance(userId, subject, upcomingTopics)
PredictCall(subject) ==
    /\ call.pc = "idle"
    /\ call' = [fn |-> "predict-performance", pc |-> "fetch", subject |-> subject,
                activities |-> Pending, prediction |-> NoPrediction, status |-> 0]
    /\ UNCHANGED <<activity_logs, quiz_results, rec, reqs>>

\* the store read resolves with data: the rest of predictPerformance runs
PredictFetchOk ==
    /\ call.fn = "predict-performance" /\ call.pc = "fetch"
    /\ LET activities ==
               Take(SelectSeq(activity_logs, LAMBDA row :
                        row.user_id = UserId /\ row.subject = call.subject),
                    PredictLimit)
       IN  call' = [call EXCEPT !.pc = "returned",
                                !.activities = Data(activities),
                                !.prediction = ComputePrediction(activities)]
    /\ UNCHANGED <<activity_logs, quiz_results, rec, reqs>>

\* the store read resolves with an error: `if (error) throw error`, caught in the function
PredictFetchError ==
    /\ call.fn = "predict-performance" /\ call.pc = "fetch"
    /\ call' = [call EXCEPT !.pc = "returned",
                            !.activities = DataError,
                            !.prediction = PredictionError]
    /\ UNCHANGED <<activity_logs, quiz_results, rec, reqs>>

\* res.json({ success: true, prediction })
PredictRespond ==
    /\ call.fn = "predict-performance" /\ call.pc = "returned"
    /\ call' = [call EXCEPT !.pc = "done", !.status = 200]
    /\ UNCHANGED <<activity_logs, quiz_results, rec, reqs>>

\* the number of runs of equal quiz scores in a stored history
MaxScoreRuns == 3

\* a history is a sequence of runs; a run is n records with one quiz score (or none)
ScoreRuns ==
    {[row |-> ActivityRow(UserId, "math", "text", ActivityFields(qs, Null, Null, Null)),
      n |-> n] : qs \in {Null, Some(0), Some(82), Some(100)}, n \in {1, 4, 5}}

\* the five scores of the stated example, most recent first
ExampleScores == <<90, 85, 88, 82, 80>>

ExampleHistory ==
    [i \in 1..Len(ExampleScores) |->
        ActivityRow(UserId, "math", "text",
                    ActivityFields(Some(ExampleScores[i]), Null, Null, Null))]

InitPredict ==
    /\ activity_logs \in
          {WithIds(Expand(g)) : g \in SeqsUpTo(ScoreRuns, MaxScoreRuns)}
          \cup {WithIds(ExampleHistory)}
    /\ quiz_results = << >>
    /\ rec = RecIdle
    /\ reqs = << >>
    /\ call = NoCall

NextPredict ==
    \/ \E subject \in {"math", "physics"} : PredictCall(subject)
    \/ PredictFetchOk
    \/ PredictFetchError
    \/ PredictRespond

SpecPredict == InitPredict /\ [][NextPredict]_vars

----------------------------------------------------------------------------
(* The activities.forEach loop of recommendLearningMode, one record at a time *)

\* the number of activity records of a history the loop is followed over
MaxRecords == 2

\* a record none of whose optional columns is set
Blank == ActivityFields(Null, Null, Null, Null)

\* records of every modality spelling with signals absent, zero, in range, at the
\* clamping points (1000 seconds, 5 and 6 playbacks), negative and above range
LoopRecords ==
    {ActivityRow(UserId, "math", t, f) :
        t \in {"visual", "audio", "text", "Audio", "mixed"},
        f \in {Blank, Absent, Good, Engaged, Negative, Perfect, Over}}

\* no record has been processed yet
NoEngagement == [accumulated |-> FALSE]

\* activities.forEach starts on the fetched rows with the zeroed buckets
LoopStart ==
    /\ call.pc = "idle"
    /\ call' = [fn |-> "forEach", pc |-> "loop",
                activities |-> SelectForUser(activity_logs, UserId, NoSubject),
                i |-> 1, modePerformance |-> ZeroModePerformance,
                last |-> NoEngagement]
    /\ UNCHANGED <<activity_logs, quiz_results, rec, reqs>>

\* one call of the callback: `last` keeps the mode the record resolved to and the
\* engagement that was added to its bucket, when one was
LoopStep ==
    /\ call.fn = "forEach" /\ call.pc = "loop"
    /\ call.i <= Len(call.activities)
    /\ LET activity == call.activities[call.i]
           mode == ResolveMode(activity.activity_type)
           after == ProcessActivity(call.modePerformance, activity)
       IN  call' = [call EXCEPT
                      !.i = @ + 1,
                      !.modePerformance = after,
                      !.last = IF mode \in ModeSet
                               THEN [accumulated |-> TRUE, mode |-> mode,
                                     engagement |-> after[mode].engagementScore
                                        - call.modePerformance[mode].engagementScore]
                               ELSE NoEngagement]
    /\ UNCHANGED <<activity_logs, quiz_results, rec, reqs>>

\* the loop has visited every record
LoopEnd ==
    /\ call.fn = "forEach" /\ call.pc = "loop"
    /\ call.i > Len(call.activities)
    /\ call' = [call EXCEPT !.pc = "done"]
    /\ UNCHANGED <<activity_logs, quiz_results, rec, reqs>>

InitLoop ==
    /\ activity_logs \in {WithIds(rows) : rows \in SeqsUpTo(LoopRecords, MaxRecords)}
    /\ quiz_results = << >>
    /\ rec = RecIdle
    /\ reqs = << >>
    /\ call = NoCall

NextLoop ==
    \/ LoopStart
    \/ LoopStep
    \/ LoopEnd

SpecLoop == InitLoop /\ [][NextLoop]_vars

----------------------------------------------------------------------------
(* analyzeEngagement and GET /engagement *)

RatAdd(a, b) == Rat(a[1] * b[2] + b[1] * a[2], a[2] * b[2])
RatTimes(a, b) == Rat(a[1] * b[1], a[2] * b[2])

\* parseInt(req.query.days) || 7: the parameter is Null when absent or not a number
DaysOrDefault(days) == IF days = Null \/ days = Some(0) THEN 7 ELSE days[1]

\* the reverse of a sequence
Reverse(xs) == [i \in 1..Len(xs) |-> xs[Len(xs) + 1 - i]]

\* mutant of SelectWindow: without .gte("session_date", startDate)
SelectWindowAll(table, userId, days) ==
    Reverse(SelectSeq(table, LAMBDA row : row.user_id = userId))

\* .eq("user_id", userId).gte("session_date", startDate).order("session_date",
\* { ascending: true }): session_age is the age of the session in days at the time of
\* the request, and the table holds the most recent session first
SelectWindow(table, userId, days) ==
    Reverse(SelectSeq(table, LAMBDA row : row.user_id = userId /\ row.session_age <= days))

RECURSIVE SumField(_, _)
\* activities.reduce((sum, a) => sum + (a[field] || 0), 0)
SumField(field, activities) ==
    IF activities = << >> THEN 0
    ELSE Or0(Head(activities)[field]) + SumField(field, Tail(activities))

\* the mean of (a.focus_level || 0) over a non-empty list, as a fraction
MeanFocus(activities) == Rat(SumField("focus_level", activities), Len(activities))

\* the mean quiz score of the records that have one; NaN || 0 when none has
MeanScore(activities) ==
    LET scores == QuizScores(activities)
    IN  IF Len(scores) = 0 THEN RatZero ELSE Rat(SumSeq(scores), Len(scores))

\* mutant of FocusDrop: olderFocus mean minus recentFocus mean
FocusDropSwapped(activities) ==
    LET n == Len(activities)
        older == SubSeq(activities, 1, n - 5)
        recent == SubSeq(activities, IF n > 5 THEN n - 4 ELSE 1, n)
        r == MeanFocus(recent)
    IN  IF n > 5
        THEN LET o == MeanFocus(older) IN Rat(o[1] * r[2] - r[1] * o[2], r[2] * o[2])
        ELSE RatZero

\* recentFocus mean minus olderFocus mean when olderFocus is not empty, else 0
FocusDrop(activities) ==
    LET n == Len(activities)
        older == SubSeq(activities, 1, n - 5)
        recent == SubSeq(activities, IF n > 5 THEN n - 4 ELSE 1, n)
        r == MeanFocus(recent)
    IN  IF n > 5
        THEN LET o == MeanFocus(older) IN Rat(r[1] * o[2] - o[1] * r[2], r[2] * o[2])
        ELSE RatZero

\* avgFocus * 0.4 + (totalTime / 60) * 0.3 + avgScore * 0.3, as a fraction
RawEngagement(avgFocus, totalTime, avgScore) ==
    RatAdd(RatAdd(RatTimes(avgFocus, <<2, 5>>), Rat(totalTime, 200)),
           RatTimes(avgScore, <<3, 10>>))

\* mutant of EngagementScore: the weighted sum without Math.min(100, ...)
EngagementScoreUncapped(avgFocus, totalTime, avgScore) ==
    RawEngagement(avgFocus, totalTime, avgScore)

\* Math.min(100, avgFocus * 0.4 + (totalTime / 60) * 0.3 + avgScore * 0.3)
EngagementScore(avgFocus, totalTime, avgScore) ==
    LET raw == RawEngagement(avgFocus, totalTime, avgScore)
    IN  IF RatGt(raw, <<100, 1>>) THEN <<100, 1>> ELSE raw

\* mutant of EngagementStatus: the thresholds are applied to Math.round(engagementScore)
EngagementStatusRounded(engagementScore) ==
    LET rounded == Round(engagementScore[1], engagementScore[2])
    IN  IF rounded > 70 THEN "high" ELSE IF rounded > 50 THEN "medium" ELSE "low"

\* engagementScore > 70 ? "high" : engagementScore > 50 ? "medium" : "low", on the
\* score before Math.round
EngagementStatus(engagementScore) ==
    IF RatGt(engagementScore, <<70, 1>>) THEN "high"
    ELSE IF RatGt(engagementScore, <<50, 1>>) THEN "medium"
    ELSE "low"

\* the alerts, in the order they are pushed
Alerts(focusDrop, avgScore, totalTime, n) ==
    (IF RatGt(<<-20, 1>>, focusDrop)
     THEN <<"Significant drop in focus level detected">> ELSE << >>)
    \o (IF RatGt(<<50, 1>>, avgScore) /\ n > 3
        THEN <<"Performance below average - consider reviewing previous topics">>
        ELSE << >>)
    \o (IF totalTime < 30
        THEN <<"Low study time - aim for at least 30 minutes per day">> ELSE << >>)

NoActivity ==
    [engagementScore |-> 0, status |-> "no_activity",
     alerts |-> <<"No activity recorded in the last 7 days">>,
     recommendations |-> <<"Start a learning session to begin tracking">>]

AnalysisError ==
    [engagementScore |-> 0, status |-> "error",
     alerts |-> <<"Error analyzing engagement">>, recommendations |-> << >>]

\* analyzeEngagement has not returned yet
NoAnalysis == [pending |-> TRUE]

\* the statements of analyzeEngagement after the store read has resolved with data
ComputeEngagement(activities) ==
    IF Len(activities) = 0 THEN NoActivity
    ELSE LET avgFocus == MeanFocus(activities)
             totalTime == SumField("reading_time", activities)
                            + SumField("playback_time", activities)
             avgScore == MeanScore(activities)
             focusDrop == FocusDrop(activities)
             engagementScore == EngagementScore(avgFocus, totalTime, avgScore)
         IN  [engagementScore |-> Round(engagementScore[1], engagementScore[2]),
              status |-> EngagementStatus(engagementScore),
              avgFocus |-> Round(avgFocus[1], avgFocus[2]),
              totalTime |-> totalTime,
              avgScore |-> Round(avgScore[1], avgScore[2]),
              alerts |-> Alerts(focusDrop, avgScore, totalTime, Len(activities)),
              recommendations |->
                  IF RatGt(<<50, 1>>, engagementScore)
                  THEN <<"Try switching learning modes",
                         "Take breaks between study sessions",
                         "Set specific learning goals">>
                  ELSE << >>,
              trend |-> IF RatGt(<<-10, 1>>, focusDrop) THEN "declining"
                        ELSE IF RatGt(focusDrop, <<10, 1>>) THEN "improving"
                        ELSE "stable"]

\* the route handler calls analyzeEngagement(userId, parseInt(req.query.days) || 7)
EngagementCall(days) ==
    /\ call.pc = "idle"
    /\ call' = [fn |-> "engagement", pc |-> "fetch", days |-> DaysOrDefault(days),
                activities |-> Pending, engagement |-> NoAnalysis, status |-> 0]
    /\ UNCHANGED <<activity_logs, quiz_results, rec, reqs>>

\* the store read resolves with data: the rest of analyzeEngagement runs
EngagementFetchOk ==
    /\ call.fn = "engagement" /\ call.pc = "fetch"
    /\ LET activities == SelectWindow(activity_logs, UserId, call.days)
       IN  call' = [call EXCEPT !.pc = "returned",
                                !.activities = Data(activities),
                                !.engagement = ComputeEngagement(activities)]
    /\ UNCHANGED <<activity_logs, quiz_results, rec, reqs>>

\* the store read resolves with an error: `if (error) throw error`, caught in the function
EngagementFetchError ==
    /\ call.fn = "engagement" /\ call.pc = "fetch"
    /\ call' = [call EXCEPT !.pc = "returned",
                            !.activities = DataError,
                            !.engagement = AnalysisError]
    /\ UNCHANGED <<activity_logs, quiz_results, rec, reqs>>

\* res.json({ success: true, engagement })
EngagementRespond ==
    /\ call.fn = "engagement" /\ call.pc = "returned"
    /\ call' = [call EXCEPT !.pc = "done", !.status = 200]
    /\ UNCHANGED <<activity_logs, quiz_results, rec, reqs>>

\* the number of runs of equal records in a stored history
MaxWindowRuns == 2

\* a session of 2250 seconds of reading: with focus 80 and score 90 the weighted sum
\* is 32 + 11.25 + 27 = 70.25
LongRead == ActivityFields(Some(90), Some(80), Some(2250), Some(0))

\* a run is n records of one kind and one age in days
WindowRuns ==
    {[row |-> [session_age |-> age] @@ ActivityRow(UserId, "math", "visual", f), n |-> n] :
        f \in {Blank, Good, Negative, Perfect, Over, LongRead}, age \in {2, 10}, n \in {1, 5}}

\* the values of the days query parameter: absent or not a number, 0, and numbers
DaysValues == {Null, Some(0), Some(1), Some(30), Some(-3)}

\* the table holds the most recent session first
RecentFirst(rows) ==
    \A i \in 1..(Len(rows) - 1) : rows[i].session_age <= rows[i + 1].session_age

InitEngagement ==
    /\ activity_logs \in
          {WithIds(Expand(g)) : g \in {h \in SeqsUpTo(WindowRuns, MaxWindowRuns) :
                                          RecentFirst(Expand(h))}}
    /\ quiz_results = << >>
    /\ rec = RecIdle
    /\ reqs = << >>
    /\ call = NoCall

NextEngagement ==
    \/ \E days \in DaysValues : EngagementCall(days)
    \/ EngagementFetchOk
    \/ EngagementFetchError
    \/ EngagementRespond

SpecEngagement == InitEngagement /\ [][NextEngagement]_vars

----------------------------------------------------------------------------
(* Two calls of recommendLearningMode against one store *)

\* the two calls
Calls == {1, 2}

\* the number of activity records of the stored history
MaxStoredRecords == 2

\* mutant of NewModePerformance: the buckets are a module-level object that keeps what
\* the previous call accumulated
KeptModePerformance(previous) == previous

\* const modePerformance = { visual: {...}, audio: {...}, text: {...} }: the object
\* literal is evaluated in every call, whatever an earlier call accumulated
NewModePerformance(previous) == ZeroModePerformance

\* modePerformance after both loops, starting from the given buckets
AggregateFrom(mp, activities, quizResults) ==
    LET afterActivities == FoldActivities(mp, activities.rows, 1)
    IN  IF ~NoRows(quizResults)
        THEN FoldQuizzes(afterActivities, quizResults.rows, 1)
        ELSE afterActivities

CallIdle ==
    [pc |-> "idle", activities |-> Pending, quizResults |-> Pending, result |-> NoResult]

\* both route handlers are entered with the same user and the same subject
TwiceStart(subject) ==
    /\ call.pc = "idle"
    /\ call' = [fn |-> "recommend-twice", pc |-> "running", subject |-> subject,
                previous |-> ZeroModePerformance,
                calls |-> [c \in Calls |-> CallIdle]]
    /\ UNCHANGED <<activity_logs, quiz_results, rec, reqs>>

\* call c is made: it issues its activity query
TwiceCall(c) ==
    /\ call.fn = "recommend-twice" /\ call.calls[c].pc = "idle"
    /\ call' = [call EXCEPT !.calls[c].pc = "fetchActivities"]
    /\ UNCHANGED <<activity_logs, quiz_results, rec, reqs>>

\* `await query` of call c resolves with data
TwiceFetchActivitiesOk(c) ==
    /\ call.fn = "recommend-twice" /\ call.calls[c].pc = "fetchActivities"
    /\ call' = [call EXCEPT
                  !.calls[c].pc = "fetchQuiz",
                  !.calls[c].activities =
                      Data(SelectForUser(activity_logs, UserId, call.subject))]
    /\ UNCHANGED <<activity_logs, quiz_results, rec, reqs>>

\* `await query` of call c resolves with an error: the catch block returns the default
TwiceFetchActivitiesError(c) ==
    /\ call.fn = "recommend-twice" /\ call.calls[c].pc = "fetchActivities"
    /\ call' = [call EXCEPT
                  !.calls[c].pc = "returned",
                  !.calls[c].activities = DataError,
                  !.calls[c].result = CatchBlock.result]
    /\ UNCHANGED <<activity_logs, quiz_results, rec, reqs>>

\* `await quizQuery` of call c resolves with data
TwiceFetchQuizOk(c) ==
    /\ call.fn = "recommend-twice" /\ call.calls[c].pc = "fetchQuiz"
    /\ call' = [call EXCEPT
                  !.calls[c].pc = "compute",
                  !.calls[c].quizResults =
                      Data(SelectForUser(quiz_results, UserId, call.subject))]
    /\ UNCHANGED <<activity_logs, quiz_results, rec, reqs>>

\* `await quizQuery` of call c resolves with an error: the call goes on without quizzes
TwiceFetchQuizError(c) ==
    /\ call.fn = "recommend-twice" /\ call.calls[c].pc = "fetchQuiz"
    /\ call' = [call EXCEPT !.calls[c].pc = "compute", !.calls[c].quizResults = DataError]
    /\ UNCHANGED <<activity_logs, quiz_results, rec, reqs>>

\* the synchronous rest of call c; `previous` is what the buckets of the call that
\* computed last were left with
TwiceCompute(c) ==
    /\ call.fn = "recommend-twice" /\ call.calls[c].pc = "compute"
    /\ LET activities == call.calls[c].activities
           quizResults == call.calls[c].quizResults
       IN  IF NoRows(activities) /\ NoRows(quizResults)
           THEN call' = [call EXCEPT !.calls[c].pc = "returned",
                                     !.calls[c].result = NoHistoryResult]
           ELSE LET mp == AggregateFrom(NewModePerformance(call.previous),
                                        activities, quizResults)
                IN  call' = [call EXCEPT
                               !.previous = mp,
                               !.calls[c].pc = "returned",
                               !.calls[c].result =
                                   RankedResult(mp, activities, quizResults, call.subject)]
    /\ UNCHANGED <<activity_logs, quiz_results, rec, reqs>>

\* the records and quiz results the store holds while the two calls run
StoredRecords ==
    {ActivityRow(UserId, "math", "visual", Good),
     ActivityRow(UserId, "math", "audio", Engaged),
     ActivityRow(UserId, "math", "text", Over),
     ActivityRow(UserId, "math", "visual", Negative),
     ActivityRow(UserId, "math", "mixed", Good),
     ActivityRow(UserId, "physics", "text", Good)}

StoredQuizzes ==
    {QuizRow(UserId, "math", "audio", 70), QuizRow(UserId, "physics", "text", 40)}

InitTwice ==
    /\ activity_logs \in {WithIds(rows) : rows \in SeqsUpTo(StoredRecords, MaxStoredRecords)}
    /\ quiz_results \in SeqsUpTo(StoredQuizzes, 1)
    /\ rec = RecIdle
    /\ reqs = << >>
    /\ call = NoCall

NextTwice ==
    \/ \E subject \in Subjects : TwiceStart(subject)
    \/ \E c \in Calls : TwiceCall(c)
    \/ \E c \in Calls : TwiceFetchActivitiesOk(c)
    \/ \E c \in Calls : TwiceFetchActivitiesError(c)
    \/ \E c \in Calls : TwiceFetchQuizOk(c)
    \/ \E c \in Calls : TwiceFetchQuizError(c)
    \/ \E c \in Calls : TwiceCompute(c)

SpecTwice == InitTwice /\ [][NextTwice]_vars

----------------------------------------------------------------------------
(* The Object.keys(modePerformance).forEach loop of recommendLearningMode, one
   modality at a time *)

\* the number of records a modality has in a history the ranking is followed over
MaxRankSessions == 1

\* the records of one modality: none, or n records of one profile
RankRuns ==
    {[n |-> 0, profile |-> Blank]} \cup
    {[n |-> n, profile |-> p] : n \in 1..MaxRankSessions,
                                p \in {Blank, Good, Negative, Perfect}}

RunOf(type, run) == [i \in 1..run.n |-> ActivityRow(UserId, "math", type, run.profile)]

\* both loops have filled the buckets; bestMode and bestScore are initialised
RankStart ==
    /\ call.pc = "idle"
    /\ LET activities == Data(SelectForUser(activity_logs, UserId, NoSubject))
       IN  call' = [fn |-> "rank", pc |-> "loop", i |-> 1,
                    modePerformance |-> Aggregate(activities, Data(<< >>)),
                    r |-> RankInit]
    /\ UNCHANGED <<activity_logs, quiz_results, rec, reqs>>

\* one call of the callback, on the i-th key
RankNext ==
    /\ call.fn = "rank" /\ call.pc = "loop"
    /\ call.i <= Len(Modes)
    /\ call' = [call EXCEPT
                  !.i = @ + 1,
                  !.r = RankStep(call.r, Modes[call.i], call.modePerformance[Modes[call.i]])]
    /\ UNCHANGED <<activity_logs, quiz_results, rec, reqs>>

\* every key has been visited: bestMode is what recommendedMode will be
RankEnd ==
    /\ call.fn = "rank" /\ call.pc = "loop"
    /\ call.i > Len(Modes)
    /\ call' = [call EXCEPT !.pc = "done"]
    /\ UNCHANGED <<activity_logs, quiz_results, rec, reqs>>

InitRank ==
    /\ activity_logs \in
          {WithIds(RunOf("visual", v) \o RunOf("audio", a) \o RunOf("text", t)) :
              v \in RankRuns, a \in RankRuns, t \in RankRuns}
    /\ quiz_results = << >>
    /\ rec = RecIdle
    /\ reqs = << >>
    /\ call = NoCall

NextRank ==
    \/ RankStart
    \/ RankNext
    \/ RankEnd

SpecRank == InitRank /\ [][NextRank]_vars

----------------------------------------------------------------------------
(* POST /api/quiz/save, then the quiz query and the quizResults.forEach loop of
   recommendLearningMode, one quiz result at a time *)

\* the number of quiz results saved before the recommendation is asked for
MaxQuizSaves == 2

\* the request body of POST /api/quiz/save; responses is always an array
SaveBody(subject, learningType, totalQuestions, correctAnswers, score) ==
    [subject |-> subject, learningType |-> learningType,
     totalQuestions |-> totalQuestions, correctAnswers |-> correctAnswers,
     score |-> score]

SaveBodies ==
    {SaveBody(s, t, n, 3, sc) :
        s \in {"math", "Math"},
        t \in {Undefined, "Visual", "mixed"},
        n \in {0, 4},
        sc \in {Null, Some(40), Some(80), Some(120)}}

\* learningType ? learningType.toLowerCase() : "text"
NormalizedLearningType(learningType) ==
    IF learningType = Undefined THEN "text" ELSE ToLower(learningType)

\* !subject || !totalQuestions, or a learningType that is none of the three
Rejected(body) ==
    \/ body.totalQuestions = 0
    \/ body.learningType # Undefined /\ NormalizedLearningType(body.learningType) \notin ModeSet

\* score !== undefined ? parseFloat(score) : (correctAnswers / totalQuestions) * 100
SavedScore(body) ==
    IF body.score # Null THEN body.score[1]
    ELSE (body.correctAnswers * 100) \div body.totalQuestions

\* the object handed to .insert(); sent_subject is not a column: it keeps the subject
\* string of the request next to the row it produced
SaveInsertData(body) ==
    [user_id |-> UserId,
     subject |-> ToLower(body.subject),
     learning_type |-> NormalizedLearningType(body.learningType),
     score |-> Some(SavedScore(body)),
     sent_subject |-> body.subject]

SaveIdle(status) == [fn |-> "save", pc |-> "idle", status |-> status]

\* POST /api/quiz/save answers 400 before touching the store
QuizSaveRejected ==
    /\ call.pc = "idle"
    /\ \E body \in SaveBodies :
          /\ Rejected(body)
          /\ call' = SaveIdle(400)
    /\ UNCHANGED <<activity_logs, quiz_results, rec, reqs>>

\* POST /api/quiz/save inserts the quiz result and answers 200
QuizSave ==
    /\ call.pc = "idle"
    /\ Len(quiz_results) < MaxQuizSaves
    /\ \E body \in SaveBodies :
          /\ ~Rejected(body)
          /\ quiz_results' = <<[id |-> Len(quiz_results) + 1] @@ SaveInsertData(body)>>
                                \o quiz_results
          /\ call' = SaveIdle(200)
    /\ UNCHANGED <<activity_logs, rec, reqs>>

\* the insert fails: 500, nothing stored
QuizSaveError ==
    /\ call.pc = "idle"
    /\ \E body \in SaveBodies : ~Rejected(body)
    /\ call' = SaveIdle(500)
    /\ UNCHANGED <<activity_logs, quiz_results, rec, reqs>>

\* recommendLearningMode(userId, subject) up to the start of quizResults.forEach: both
\* queries have resolved with data and the activity records are in the buckets
QuizLoopStart ==
    /\ call.pc = "idle"
    /\ \E subject \in {NoSubject, "math", "Math"} :
          call' = [fn |-> "quizLoop", pc |-> "loop", subject |-> subject,
                   quizResults |-> SelectForUser(quiz_results, UserId, subject),
                   i |-> 1,
                   modePerformance |->
                       FoldActivities(ZeroModePerformance,
                                      SelectForUser(activity_logs, UserId, subject), 1)]
    /\ UNCHANGED <<activity_logs, quiz_results, rec, reqs>>

\* one call of the callback of quizResults.forEach
QuizLoopStep ==
    /\ call.fn = "quizLoop" /\ call.pc = "loop"
    /\ call.i <= Len(call.quizResults)
    /\ call' = [call EXCEPT
                  !.i = @ + 1,
                  !.modePerformance = ProcessQuiz(@, call.quizResults[call.i])]
    /\ UNCHANGED <<activity_logs, quiz_results, rec, reqs>>

\* the loop has visited every quiz result, or was not entered for want of one
QuizLoopEnd ==
    /\ call.fn = "quizLoop" /\ call.pc = "loop"
    /\ call.i > Len(call.quizResults)
    /\ call' = [call EXCEPT !.pc = "done"]
    /\ UNCHANGED <<activity_logs, quiz_results, rec, reqs>>

InitQuiz ==
    /\ activity_logs \in
          {WithIds(rows) :
              rows \in SeqsUpTo({ActivityRow(UserId, "math", "visual", Good),
                                 ActivityRow(UserId, "math", "text", Over)}, 1)}
    /\ quiz_results = << >>
    /\ rec = RecIdle
    /\ reqs = << >>
    /\ call = NoCall

NextQuiz ==
    \/ QuizSaveRejected
    \/ QuizSave
    \/ QuizSaveError
    \/ QuizLoopStart
    \/ QuizLoopStep
    \/ QuizLoopEnd

SpecQuiz == InitQuiz /\ [][NextQuiz]_vars

----------------------------------------------------------------------------
(* Properties of recommendLearningMode *)

\* recommendLearningMode has returned to the route handler
Returned == rec.pc \in {"returned", "done"}

\* the call went past the no-history return and aggregated its records
Computed == Returned /\ ~rec.activities.error /\ ~(NoRows(rec.activities) /\ NoRows(rec.quizResults))

\* the buckets the returned result was ranked from
Buckets == rec.modePerformance

\* each modality's weighted score as the specification states it, zero without sessions
WeightedOf(mp) ==
    LET w == [m \in ModeSet |->
                IF mp[m].totalSessions > 0 THEN WeightedScore(mp[m]) ELSE RatZero]
    IN  <<w["visual"], w["audio"], w["text"]>>

\* each modality's average quiz score, zero without sessions
AverageOf(mp) ==
    LET a == [m \in ModeSet |->
                IF mp[m].totalSessions > 0 THEN AvgScore(mp[m]) ELSE RatZero]
    IN  <<a["visual"], a["audio"], a["text"]>>

\* the first modality, in the order visual, audio, text, whose value in f is the highest
FirstHighest(f) ==
    LET top(i) == \A j \in 1..Len(Modes) : RatGe(f[i], f[j])
        first == CHOOSE i \in 1..Len(Modes) : top(i) /\ \A k \in 1..(i - 1) : ~top(k)
    IN  Modes[first]

SomeAbove0(f) == \E i \in 1..Len(Modes) : RatGt(f[i], RatZero)

IsSentinel(result) ==
    /\ result.recommendedMode = "visual"
    /\ RatEq(result.confidence, <<3, 10>>)
    /\ \A m \in ModeSet :
         /\ result.modeStats[m].totalScore = 0
         /\ result.modeStats[m].totalSessions = 0
         /\ result.modeStats[m].avgFocus = 0

OutOfRange(row) ==
    \/ ParseOr0(row.quiz_score) < 0 \/ ParseOr0(row.quiz_score) > 100
    \/ ParseOr0(row.focus_level) < 0 \/ ParseOr0(row.focus_level) > 100

\* C1: whatever the records hold (out-of-range and missing fields included) and whatever
\* the store answers, the confidence returned by recommendLearningMode is in [0, 0.95].
C1_ConfidenceInRange ==
    Returned =>
        /\ RatGe(rec.result.confidence, RatZero)
        /\ RatGe(<<95, 100>>, rec.result.confidence)

\* C1 witness: a computed result over out-of-range records whose confidence is capped at 0.95
C1_Witness ==
    /\ Computed
    /\ RatEq(rec.result.confidence, <<95, 100>>)
    /\ \E i \in 1..Len(rec.activities.rows) : OutOfRange(rec.activities.rows[i])

\* C2: on every path (success, store error, empty) recommendedMode and
\* bestPerformingMode are each one of visual, audio, text.
C2_ModesAreModalities ==
    Returned =>
        /\ rec.result.recommendedMode \in ModeSet
        /\ rec.result.bestPerformingMode \in ModeSet

\* C2 witness: a computed result after a failed quiz fetch that recommends a mode other
\* than the default, from a history that also holds a record of unrecognised modality
C2_Witness ==
    /\ Computed
    /\ rec.quizResults.error
    /\ rec.result.recommendedMode = "audio"
    /\ \E i \in 1..Len(rec.activities.rows) : rec.activities.rows[i].activity_type = "mixed"

\* C3: both fetches succeed with empty lists => visual, confidence exactly 0.3,
\* all three per-mode buckets zeroed.
C3_ZeroHistory ==
    (/\ Returned
     /\ ~rec.activities.error /\ Len(rec.activities.rows) = 0
     /\ ~rec.quizResults.error /\ Len(rec.quizResults.rows) = 0
     /\ rec.activities # Pending /\ rec.quizResults # Pending)
    => IsSentinel(rec.result)

\* C3 witness: both lists came back empty although the tables hold rows (of another
\* user or subject)
C3_Witness ==
    /\ rec.pc = "done"
    /\ rec.activities = Data(<< >>)
    /\ rec.quizResults = Data(<< >>)
    /\ Len(activity_logs) > 0
    /\ rec.result.reasoning.template = "No learning history found"

\* C4: a failed activity fetch never propagates: the call returns the sentinel default
\* whatever the quiz table holds, and the route handler does not answer 500.
C4_ActivityErrorGivesSentinel ==
    (Returned /\ rec.activities.error) =>
        /\ ~rec.thrown
        /\ IsSentinel(rec.result)
        /\ rec.result.bestPerformingMode = "visual"
        /\ (rec.pc = "done" => rec.status = 200)

\* C4 witness: the activity fetch failed while both tables held rows of the user, and
\* the handler has answered
C4_Witness ==
    /\ rec.pc = "done"
    /\ rec.activities.error
    /\ \E i \in 1..Len(activity_logs) : activity_logs[i].user_id = UserId
    /\ \E i \in 1..Len(quiz_results) : quiz_results[i].user_id = UserId

\* C5: a failed quiz fetch after a successful activity fetch gives exactly the result of
\* aggregating the same activity records with an empty quiz list, and nothing is thrown.
C5_QuizErrorDegrades ==
    (Returned /\ ~rec.activities.error /\ rec.quizResults.error) =>
        /\ ~rec.thrown
        /\ rec.result = ComputeRecommendation(rec.activities, Data(<< >>), rec.subject)
        /\ (rec.pc = "done" => rec.status = 200)

\* C5 witness: the quiz fetch failed although the quiz table holds rows of the user, and
\* the result was computed from a non-empty activity list
C5_Witness ==
    /\ rec.pc = "done"
    /\ rec.quizResults.error
    /\ ~rec.activities.error
    /\ Len(rec.activities.rows) > 0
    /\ Len(quiz_results) > 0
    /\ rec.result.reasoning.template = "Based on"

\* C9 as stated: for a non-empty history recommendedMode is the first modality, in the
\* order visual, audio, text, with the highest weightedScore (0 without sessions).
C9_Original ==
    Computed =>
        LET w == WeightedOf(Buckets) IN rec.result.recommendedMode = FirstHighest(w)

\* C9 amended: when some modality has a weightedScore above 0, recommendedMode is the
\* first modality in the order visual, audio, text with the highest weightedScore;
\* when none has, recommendedMode is visual.
C9_RecommendedIsFirstHighest ==
    Computed =>
        LET w == WeightedOf(Buckets)
        IN  rec.result.recommendedMode =
                IF SomeAbove0(w) THEN FirstHighest(w) ELSE "visual"

\* C9 witness: audio and text share the highest positive weightedScore and audio is chosen
C9_Witness ==
    /\ Computed
    /\ LET w == WeightedOf(Buckets)
       IN  /\ RatGt(w[2], RatZero)
           /\ RatEq(w[2], w[3])
           /\ RatGt(w[2], w[1])
    /\ rec.result.recommendedMode = "audio"

\* C10 as stated: bestPerformingMode is the modality with the highest average quiz score
\* alone, and it is visual whenever all three average quiz scores are zero.
C10_Original ==
    Computed =>
        LET a == AverageOf(Buckets)
        IN  /\ (SomeAbove0(a) => rec.result.bestPerformingMode = FirstHighest(a))
            /\ ((\A i \in 1..Len(Modes) : RatEq(a[i], RatZero))
                  => rec.result.bestPerformingMode = "visual")

\* C10 amended: when some modality has an average quiz score above 0, bestPerformingMode
\* is the first modality in the order visual, audio, text with the highest average quiz
\* score, whatever recommendedMode is; when none has, bestPerformingMode equals
\* recommendedMode (so it is audio or text when focus or engagement alone rank them first).
C10_BestPerformingMode ==
    Computed =>
        LET a == AverageOf(Buckets)
        IN  rec.result.bestPerformingMode =
                IF SomeAbove0(a) THEN FirstHighest(a) ELSE rec.result.recommendedMode

\* C10 witness: the two rankings differ: the best average quiz score is one modality's,
\* the best weighted score another's
C10_Witness ==
    /\ Computed
    /\ SomeAbove0(AverageOf(Buckets))
    /\ rec.result.bestPerformingMode # rec.result.recommendedMode

\* the position of a modality in Modes
IndexOf(mode) == CHOOSE i \in 1..Len(Modes) : Modes[i] = mode

\* min(0.95, min(0.3 + totalSessions*0.01, 0.4) + min(0.3 + recommendedModeSessions*0.02, 0.4)
\*           + third), as a fraction
ComposedConfidence(totalSessions, recommendedModeSessions, third) ==
    LET hundredths == Min(30 + totalSessions, 40) + Min(30 + 2 * recommendedModeSessions, 40)
        sum == Rat(hundredths * third[2] + 100 * third[1], 100 * third[2])
    IN  IF RatGt(sum, <<19, 20>>) THEN <<19, 20>> ELSE sum

\* min(0.2, weightedScore / 500), as a fraction
ScoreTerm(weightedScore) ==
    IF RatGe(weightedScore, <<100, 1>>) THEN <<1, 5>>
    ELSE Rat(weightedScore[1], 500 * weightedScore[2])

\* C11 as stated: for a non-empty history the confidence is the capped sum of the three
\* terms, the third being min(0.2, weightedScore/500) of the recommended modality's
\* weighted score, hence 0 when that weighted score is 0.
C11_Original ==
    Computed =>
        LET mp == Buckets
            mode == rec.result.recommendedMode
            w == WeightedOf(mp)[IndexOf(mode)]
            totalSessions == LengthOr0(rec.activities) + LengthOr0(rec.quizResults)
        IN  RatEq(rec.result.confidence,
                  ComposedConfidence(totalSessions, mp[mode].totalSessions, ScoreTerm(w)))

\* C11 amended: the third term is min(0.2, weightedScore/500) when the recommended
\* modality's weighted score is above 0, and 0.1 when it is 0 or below.
C11_ConfidenceComposition ==
    Computed =>
        LET mp == Buckets
            mode == rec.result.recommendedMode
            w == WeightedOf(mp)[IndexOf(mode)]
            totalSessions == LengthOr0(rec.activities) + LengthOr0(rec.quizResults)
            third == IF RatGt(w, RatZero) THEN ScoreTerm(w) ELSE <<1, 10>>
        IN  RatEq(rec.result.confidence,
                  ComposedConfidence(totalSessions, mp[mode].totalSessions, third))

\* C11 witness: a single record without score, focus or engagement: the recommended
\* modality's weighted score is 0 and the confidence is 0.31 + 0.32 + 0.1
C11_Witness ==
    /\ Computed
    /\ LET mp == Buckets
           mode == rec.result.recommendedMode
       IN  /\ mp[mode].totalSessions = 1
           /\ RatEq(WeightedOf(mp)[IndexOf(mode)], RatZero)
    /\ RatEq(rec.result.confidence, <<73, 100>>)

\* the fetched history is made of text activity records only, each with a positive
\* quiz score and a focus level that is not negative, and there are no quiz results
TextOnly ==
    /\ Computed
    /\ NoRows(rec.quizResults)
    /\ \A i \in 1..Len(rec.activities.rows) :
         LET a == rec.activities.rows[i]
         IN  /\ a.activity_type = "text"
             /\ ParseOr0(a.quiz_score) > 0
             /\ ParseOr0(a.focus_level) >= 0

RECURSIVE ReadingTimeSum(_)
ReadingTimeSum(rows) ==
    IF rows = << >> THEN 0 ELSE ParseOr0(Head(rows).reading_time) + ReadingTimeSum(Tail(rows))

RECURSIVE CappedReadingSum(_)
\* the sum over the records of min(100, readingTimeSeconds / 10), in tenths of a point,
\* a record whose reading time is not above 0 giving 0
CappedReadingSum(rows) ==
    IF rows = << >> THEN 0
    ELSE LET rt == ParseOr0(Head(rows).reading_time)
         IN  (IF rt > 0 THEN Min(1000, rt) ELSE 0) + CappedReadingSum(Tail(rows))

SessionsInBuckets ==
    rec.result.modeStats["visual"].totalSessions
    + rec.result.modeStats["audio"].totalSessions
    + rec.result.modeStats["text"].totalSessions

\* C26: in every result that is not one of the two defaults, the sessionCount of the three
\* buckets adds up to the number of activity records consumed plus the number of quiz
\* results consumed, which is the totalSessions the confidence is computed from and the
\* reasoning quotes.
C26_SessionsAddUp ==
    (Computed /\ ~IsSentinel(rec.result)) =>
        /\ SessionsInBuckets = Len(rec.activities.rows) + LengthOr0(rec.quizResults)
        /\ SessionsInBuckets = rec.result.reasoning.totalSessions

\* both calls have returned and the store answered both in the same way
BothReturned ==
    /\ call.fn = "recommend-twice"
    /\ \A c \in Calls : call.calls[c].pc = "returned"
    /\ call.calls[1].activities.error = call.calls[2].activities.error
    /\ call.calls[1].quizResults.error = call.calls[2].quizResults.error

Ranked == call.fn = "rank" /\ call.pc = "done"

\* no record was aggregated into the modality
Unused(m) == call.modePerformance[m].totalSessions = 0

\* C25 as stated: a modality with sessionCount = 0 has weightedScore exactly 0 and is
\* returned as recommendedMode only when the weighted scores of all three modalities are
\* zero, in which case the result is visual.
C25_Original ==
    Ranked =>
        \A m \in ModeSet : Unused(m) =>
            /\ call.r.modeScores[m] = RatZero
            /\ call.r.bestMode = m =>
                  /\ \A o \in ModeSet : call.r.modeScores[o] = RatZero
                  /\ m = "visual"

\* C25 amended: a modality with sessionCount = 0 has weightedScore exactly 0 and is
\* returned as recommendedMode only when no modality has a weighted score above 0
\* (every one is zero or negative), in which case the result is visual.
C25_UnusedModality ==
    Ranked =>
        \A m \in ModeSet : Unused(m) =>
            /\ call.r.modeScores[m] = RatZero
            /\ call.r.bestMode = m =>
                  /\ \A o \in ModeSet : ~RatGt(call.r.modeScores[o], RatZero)
                  /\ m = "visual"

\* C25 witness: visual has no record and is returned while audio has records and a
\* weighted score of exactly 0
C25_Witness ==
    /\ Ranked
    /\ Unused("visual") /\ ~Unused("audio")
    /\ call.r.bestMode = "visual"
    /\ \A o \in ModeSet : call.r.modeScores[o] = RatZero

\* the callback of quizResults.forEach runs on the i-th quiz result
StepsOverQuiz ==
    /\ call.fn = "quizLoop" /\ call.pc = "loop"
    /\ call'.fn = "quizLoop" /\ call'.i = call.i + 1

\* C27: each quiz result is aggregated into the bucket of its own modality, on top of
\* what the activity records put there: its score is added to totalScore, 1 to
\* sessionCount, 85 (score >= 80), 70 (score >= 60) or 50 to focusSum, and
\* min(100, score) to engagementSum; the other buckets are left alone.
C27_QuizAggregation ==
    [][StepsOverQuiz =>
          LET quiz == call.quizResults[call.i]
              score == quiz.score[1]
              before == call.modePerformance
              after == call'.modePerformance
              own == quiz.learning_type
              proxy == IF score >= 80 THEN 85 ELSE IF score >= 60 THEN 70 ELSE 50
          IN  /\ own \in ModeSet
              /\ after[own].totalScore = before[own].totalScore + score
              /\ after[own].totalSessions = before[own].totalSessions + 1
              /\ after[own].avgFocus = before[own].avgFocus + proxy
              /\ after[own].engagementScore =
                    before[own].engagementScore + 10 * (IF score > 100 THEN 100 ELSE score)
              /\ \A m \in ModeSet \ {own} : after[m] = before[m]]_vars

\* C27 witness: the visual bucket holds an activity record (score 90, focus 80) and, on
\* top of it, a quiz result of exactly 80 that brought a focus proxy of 85
C27_Witness ==
    /\ call.fn = "quizLoop" /\ call.i = 2
    /\ Len(activity_logs) = 1
    /\ call.quizResults[1].learning_type = "visual"
    /\ call.quizResults[1].score = Some(80)
    /\ call.modePerformance["visual"].totalSessions = 2
    /\ call.modePerformance["visual"].totalScore = 170
    /\ call.modePerformance["visual"].avgFocus = 165

\* C28: a quiz result stored by a successful POST /api/quiz/save with subject string S is
\* among the quiz results a later recommendLearningMode aggregates when it is called with
\* the same string S, upper-case letters or not.
C28_SavedQuizIsRecommended ==
    (call.fn = "quizLoop" /\ call.subject # NoSubject) =>
        \A k \in 1..Len(quiz_results) :
            quiz_results[k].sent_subject = call.subject =>
                \E j \in 1..Len(call.quizResults) :
                    call.quizResults[j].id = quiz_results[k].id

----------------------------------------------------------------------------
(* Properties of calculateAdaptiveDifficulty *)

\* POST /adaptive-difficulty has answered with a difficulty
AdaptiveAnswered ==
    call.fn = "adaptive-difficulty" /\ call.pc = "done" /\ call.status = 200

\* the answered request carried this array and this currentDifficulty
AdaptiveCase(items, currentDifficulty) ==
    /\ AdaptiveAnswered
    /\ call.body.recentScores = ArrayOf(items)
    /\ call.body.currentDifficulty = currentDifficulty

\* C12: with recentScores most recent first, calculateAdaptiveDifficulty returns
\* currentDifficulty unchanged for an empty array; otherwise, with avg the mean and last
\* the first element, hard if avg > 85 and last > 80, else easy if avg < 60 or last < 50,
\* else medium.  [90, 88, 85] gives hard, [40] easy, [70, 72] medium, ([], hard) hard.
C12_AdaptiveRule ==
    /\ (AdaptiveAnswered /\ call.body.recentScores.kind = "array") =>
          LET items == call.body.recentScores.items
              avg == Rat(SumSeq(items), Len(items))
              last == items[1]
          IN  IF items = << >>
              THEN call.body.currentDifficulty # Undefined
                      => call.difficulty = call.body.currentDifficulty
              ELSE call.difficulty =
                      IF RatGt(avg, <<85, 1>>) /\ last > 80 THEN "hard"
                      ELSE IF RatGt(<<60, 1>>, avg) \/ last < 50 THEN "easy"
                      ELSE "medium"
    /\ AdaptiveCase(<<90, 88, 85>>, "medium") => call.difficulty = "hard"
    /\ AdaptiveCase(<<40>>, "hard") => call.difficulty = "easy"
    /\ AdaptiveCase(<<70, 72>>, "medium") => call.difficulty = "medium"
    /\ AdaptiveCase(<< >>, "hard") => call.difficulty = "hard"

\* C12 witness: the mean is above 85 but the most recent score is not above 80, and the
\* oldest is: the answer is medium
C12_Witness ==
    /\ AdaptiveCase(<<80, 100, 100>>, "hard")
    /\ call.difficulty = "medium"

\* C13: for every request body POST /adaptive-difficulty accepts, the difficulty it
\* returns is one of easy, medium, hard.
C13_DifficultyIsLevel ==
    AdaptiveAnswered => call.difficulty \in {"easy", "medium", "hard"}

----------------------------------------------------------------------------
(* Properties of predictPerformance *)

\* predictPerformance has returned to the route handler
Predicted == call.fn = "predict-performance" /\ call.pc \in {"returned", "done"}

\* the quiz-score points of the fetched history, most recent first
FetchedScores == QuizScores(call.activities.rows)

\* the mean of a non-empty list of numbers, as a fraction
MeanOf(xs) == Rat(SumSeq(xs), Len(xs))

\* recentAvg + 0.5 * (recentAvg - olderAvg) clamped to [0, 100], as a fraction, with
\* recentAvg the mean of the first 5 scores and olderAvg the mean of those at indexes
\* 5 to 9 when any exist, recentAvg otherwise
ClampedTrend(scores) ==
    LET r == MeanOf(SubSeq(scores, 1, 5))
        o == IF Len(scores) > 5 THEN MeanOf(SubSeq(scores, 6, Min(10, Len(scores)))) ELSE r
        p == Rat(3 * r[1] * o[2] - o[1] * r[2], 2 * r[2] * o[2])
    IN  IF RatGt(RatZero, p) THEN RatZero ELSE IF RatGt(p, <<100, 1>>) THEN <<100, 1>> ELSE p

RECURSIVE SquaredDiffs(_, _, _)
\* the sum over xs of (n * x - sum)^2, which is n^2 times the sum of squared
\* differences from the mean sum / n
SquaredDiffs(xs, n, sum) ==
    IF xs = << >> THEN 0
    ELSE (n * Head(xs) - sum) * (n * Head(xs) - sum) + SquaredDiffs(Tail(xs), n, sum)

\* the population variance of a non-empty list of numbers, as a fraction
PopulationVariance(xs) ==
    LET n == Len(xs) IN Rat(SquaredDiffs(xs, n, SumSeq(xs)), n * n * n)

\* clamp(1 - variance / 1000, 0.3, 0.9), as a fraction
ClampedConfidence(variance) ==
    IF RatGe(variance, <<700, 1>>) THEN <<3, 10>>
    ELSE IF RatGe(<<100, 1>>, variance) THEN <<9, 10>>
    ELSE Rat(1000 * variance[2] - variance[1], 1000 * variance[2])

\* score histories the returned confidence is compared with
ReferenceScores == {<<a, b>> : a, b \in {0, 40, 82, 100}} \cup {<<70, 100>>}

\* C14: whenever the fetched history holds fewer than 5 quiz-score points,
\* predictPerformance returns predictedScore = 65 and confidence = 0.3, also when 5 or
\* more activity records exist but most have no quiz score.
C14_FewPointsGiveFallback ==
    (Predicted /\ Len(FetchedScores) < 5) =>
        /\ call.prediction.predictedScore = 65
        /\ call.prediction.confidence = <<3, 10>>

\* C15 as stated: for at least 5 points predictedScore equals
\* clamp(recentAvg + 0.5 * (recentAvg - olderAvg), 0, 100), so exactly 5 scores predict
\* their mean.
C15_Original ==
    (Predicted /\ Len(FetchedScores) >= 5) =>
        LET scores == FetchedScores
        IN  /\ <<call.prediction.predictedScore, 1>> = ClampedTrend(scores)
            /\ Len(scores) = 5 => <<call.prediction.predictedScore, 1>> = MeanOf(scores)

\* C15 amended: for at least 5 points predictedScore is that clamped value rounded to the
\* nearest integer; it lies in [0, 100], and exactly 5 scores predict their rounded mean.
C15_PredictedScore ==
    (Predicted /\ Len(FetchedScores) >= 5) =>
        LET scores == FetchedScores
            c == ClampedTrend(scores)
            m == MeanOf(scores)
            predictedScore == call.prediction.predictedScore
        IN  /\ predictedScore = Round(c[1], c[2])
            /\ predictedScore >= 0 /\ predictedScore <= 100
            /\ (Len(scores) = 5 /\ RatGe(m, RatZero) /\ RatGe(<<100, 1>>, m))
                  => predictedScore = Round(m[1], m[2])
            /\ scores = ExampleScores => predictedScore = 85

\* C15 witness: ten points, the recent five far above the older five: the extrapolation
\* is above 100 and 100 is predicted
C15_Witness ==
    /\ Predicted
    /\ Len(FetchedScores) = 10
    /\ LET scores == FetchedScores
       IN  RatGt(MeanOf(SubSeq(scores, 1, 5)), MeanOf(SubSeq(scores, 6, 10)))
    /\ call.prediction.predictedScore = 100
    /\ call.prediction.factors[2] = "improving"

\* C16: on the normal path the confidence is clamp(1 - variance / 1000, 0.3, 0.9) with the
\* population variance of all fetched scores; on every path (normal, insufficient data,
\* store error) it lies in [0.3, 0.9]; a history of greater or equal variance never gets
\* a greater confidence.
C16_PredictConfidence ==
    Predicted =>
        LET confidence == call.prediction.confidence
            normal == ~call.activities.error /\ Len(call.activities.rows) >= 5
                        /\ Len(FetchedScores) > 0
        IN  /\ RatGe(confidence, <<3, 10>>) /\ RatGe(<<9, 10>>, confidence)
            /\ normal =>
                 LET variance == PopulationVariance(FetchedScores)
                 IN  /\ confidence = ClampedConfidence(variance)
                     /\ \A h \in ReferenceScores :
                          LET other == PopulationVariance(h)
                          IN  /\ RatGe(other, variance)
                                   => RatGe(confidence, PredictConfidence(h))
                              /\ RatGe(variance, other)
                                   => RatGe(PredictConfidence(h), confidence)

\* C16 witness: a computed confidence strictly between the two bounds
C16_Witness ==
    /\ Predicted
    /\ ~call.activities.error
    /\ Len(call.activities.rows) >= 5
    /\ Len(FetchedScores) > 0
    /\ RatGt(call.prediction.confidence, <<3, 10>>)
    /\ RatGt(<<9, 10>>, call.prediction.confidence)

----------------------------------------------------------------------------
(* Properties of the per-record engagement *)

\* the callback has just added a record's engagement to a bucket
Accumulated == call.fn = "forEach" /\ call.i > 1 /\ call.last.accumulated

\* the record the callback has just processed
LastRecord == call.activities[call.i - 1]

\* the signal of the record's modality: seconds read, playbacks, or focus level
SignalOf(activity, mode) ==
    IF mode = "text" THEN ParseOr0(activity.reading_time)
    ELSE IF mode = "audio" THEN ParseOr0(activity.playback_time)
    ELSE ParseOr0(activity.focus_level)

\* min(100, readingTimeSeconds / 10) for text, min(100, playbackCount * 20) for audio,
\* focusLevel for visual, in tenths of a point
StatedEngagement(activity, mode) ==
    IF mode = "text" THEN Min(1000, ParseOr0(activity.reading_time))
    ELSE IF mode = "audio" THEN Min(1000, 200 * ParseOr0(activity.playback_time))
    ELSE 10 * ParseOr0(activity.focus_level)

\* C17 as stated: the engagement of one record is min(100, readingTimeSeconds/10) for
\* text, min(100, playbackCount*20) for audio, focusLevel for visual (which is 0 when the
\* signal is zero or absent); 1000 seconds give 100, 5 and 6 playbacks give 100.
C17_Original ==
    Accumulated =>
        call.last.engagement = StatedEngagement(LastRecord, call.last.mode)

\* C17 amended: that value when the modality's signal is above 0, and 0 when the signal
\* is zero, absent or negative; 1000 seconds give 100, 5 and 6 playbacks give 100.
C17_EngagementPerRecord ==
    Accumulated =>
        LET activity == LastRecord
            mode == call.last.mode
        IN  /\ call.last.engagement =
                  IF SignalOf(activity, mode) > 0 THEN StatedEngagement(activity, mode)
                  ELSE 0
            /\ (mode = "text" /\ activity.reading_time = Some(1000))
                  => call.last.engagement = 1000
            /\ (mode = "audio" /\ activity.playback_time \in {Some(5), Some(6)})
                  => call.last.engagement = 1000

\* C17 witness: an audio record with 6 playbacks has been given exactly 100
C17_Witness ==
    /\ Accumulated
    /\ call.last.mode = "audio"
    /\ LastRecord.playback_time = Some(6)
    /\ call.last.engagement = 1000

\* C18: for every activity record of every modality, out-of-range values included, the
\* engagement accumulated into engagementSum lies in [0, 100].
C18_EngagementInRange ==
    Accumulated => (call.last.engagement >= 0 /\ call.last.engagement <= 1000)

\* the callback runs on a record whose modality is unset or is none of the three
StepsOverUnrecognised ==
    /\ call.fn = "forEach" /\ call.pc = "loop"
    /\ call'.fn = "forEach" /\ call'.i = call.i + 1
    /\ LET type == call.activities[call.i].activity_type
       IN  type = NullStr \/ ResolveMode(type) \notin ModeSet

\* C24: a record whose modality is unset or is not visual, audio or text (such as the
\* "mixed" records POST /quiz-progress writes) is never skipped: the callback adds it to
\* the visual bucket, whose sessionCount grows by one.
C24_UnrecognisedCountsAsVisual ==
    [][StepsOverUnrecognised =>
          call'.modePerformance["visual"].totalSessions =
              call.modePerformance["visual"].totalSessions + 1]_vars

----------------------------------------------------------------------------
(* Properties of analyzeEngagement *)

\* analyzeEngagement has returned to the route handler after a successful store read
Analyzed ==
    call.fn = "engagement" /\ call.pc \in {"returned", "done"} /\ ~call.activities.error

\* the user's records of the trailing window of call.days days
InWindow ==
    {i \in 1..Len(activity_logs) :
        activity_logs[i].user_id = UserId /\ activity_logs[i].session_age <= call.days}

C20_EngagementScoreInRange ==
    (Analyzed /\ InWindow # {}) =>
        /\ call.engagement.engagementScore >= 0
        /\ call.engagement.engagementScore <= 100

\* a non-empty window has been analysed
AnalyzedWindow == Analyzed /\ Len(call.activities.rows) > 0

\* the records of the window, oldest first
Window == call.activities.rows

\* the focus levels of the records i..j of the window, added up (0 for an unset one)
FocusSum(i, j) == SumField("focus_level", SubSeq(Window, i, j))

\* mean focus of the last 5 records minus mean focus of all earlier ones, multiplied by
\* DropScale to stay in the integers; 0 when the window holds at most 5 records
DropScale == IF Len(Window) > 5 THEN 5 * (Len(Window) - 5) ELSE 1
ScaledDrop ==
    LET n == Len(Window)
    IN  IF n > 5 THEN FocusSum(n - 4, n) * (n - 5) - FocusSum(1, n - 5) * 5 ELSE 0

StatedTrend ==
    IF ScaledDrop < (0 - 10) * DropScale THEN "declining"
    ELSE IF ScaledDrop > 10 * DropScale THEN "improving"
    ELSE "stable"

\* the engagement score before Math.round
Unrounded ==
    EngagementScore(MeanFocus(Window),
                    SumField("reading_time", Window) + SumField("playback_time", Window),
                    MeanScore(Window))

\* C29 as stated: for a non-empty window, status is high exactly when the returned
\* engagementScore is > 70, medium when it is > 50 and <= 70, low otherwise; trend is
\* declining when focusDrop < -10, improving when focusDrop > 10, stable otherwise.
C29_Original ==
    AnalyzedWindow =>
        LET score == call.engagement.engagementScore
        IN  /\ call.engagement.status =
                  IF score > 70 THEN "high" ELSE IF score > 50 THEN "medium" ELSE "low"
            /\ call.engagement.trend = StatedTrend

\* C29 amended: status is high exactly when the engagement score before rounding is
\* > 70, medium when it is > 50 and <= 70, low otherwise, so a returned engagementScore
\* of 70 goes with medium or high and one of 50 with low or medium; trend is declining
\* when focusDrop < -10, improving when focusDrop > 10, stable otherwise.
C29_StatusAndTrend ==
    AnalyzedWindow =>
        LET score == call.engagement.engagementScore
            status == call.engagement.status
            u == Unrounded
        IN  /\ status = IF RatGt(u, <<70, 1>>) THEN "high"
                        ELSE IF RatGt(u, <<50, 1>>) THEN "medium" ELSE "low"
            /\ status = "high" => score >= 70
            /\ status = "medium" => (score >= 50 /\ score <= 70)
            /\ status = "low" => score <= 50
            /\ score > 70 => status = "high"
            /\ score < 50 => status = "low"
            /\ call.engagement.trend = StatedTrend

\* C29 witness: a score of 70.25 is returned as 70 with status high
C29_Witness ==
    /\ AnalyzedWindow
    /\ Unrounded = <<281, 4>>
    /\ call.engagement.engagementScore = 70
    /\ call.engagement.status = "high"
    /\ call.engagement.trend = "stable"

FocusDropAlert == "Significant drop in focus level detected"

HasAlert(alert) ==
    \E i \in 1..Len(call.engagement.alerts) : call.engagement.alerts[i] = alert

\* C30: the focus-drop alert is raised exactly when the window holds more than 5 records
\* and the mean focus of the last 5 minus the mean focus of all earlier records is below
\* -20; with 5 records or fewer focusDrop is 0: no focus-drop alert, trend stable.
C30_FocusDropAlert ==
    AnalyzedWindow =>
        /\ HasAlert(FocusDropAlert) <=>
              (Len(Window) > 5 /\ ScaledDrop < (0 - 20) * DropScale)
        /\ Len(Window) <= 5 =>
              /\ ScaledDrop = 0
              /\ ~HasAlert(FocusDropAlert)
              /\ call.engagement.trend = "stable"

\* C30 witness: five sessions of focus 100 followed by five of focus 80 or less, the
\* alert raised and the trend declining
C30_Witness ==
    /\ AnalyzedWindow
    /\ Len(Window) = 10
    /\ FocusSum(1, 5) = 500
    /\ FocusSum(6, 10) < 400
    /\ HasAlert(FocusDropAlert)
    /\ call.engagement.trend = "declining"

----------------------------------------------------------------------------
(* Properties of the activity_logs table under POST /activity and POST /quiz-progress *)

Triple(row) == <<row.user_id, row.subject, row.activity_type>>

RECURSIVE SumOver(_, _, _)
\* the sum of f(x) over the elements x of the sequence xs, from index i on
SumOver(f(_), xs, i) ==
    IF i > Len(xs) THEN 0 ELSE f(xs[i]) + SumOver(f, xs, i + 1)

AllDone == \A r \in Requests : reqs[r].pc = "done"

\* every request of the run was a POST /activity that was answered 200 or 201
AllSuccessfulActivity ==
    \A r \in Requests : reqs[r].kind = "activity" /\ reqs[r].status \in {200, 201}

StoredReadingTime(t) ==
    SumOver(LAMBDA row : IF Triple(row) = t THEN Or0(row.reading_time) ELSE 0,
            activity_logs, 1)

StoredPlayback(t) ==
    SumOver(LAMBDA row : IF Triple(row) = t THEN Or0(row.playback_time) ELSE 0,
            activity_logs, 1)

RequestTriple(r) == <<UserId, reqs[r].body.subject, reqs[r].body.activity_type>>

SubmittedReadingTime(t) ==
    SumOver(LAMBDA r : IF RequestTriple(r) = t THEN Or0(reqs[r].body.reading_time) ELSE 0,
            [r \in Requests |-> r], 1)

SubmittedPlayback(t) ==
    SumOver(LAMBDA r : IF RequestTriple(r) = t THEN Or0(reqs[r].body.playback_time) ELSE 0,
            [r \in Requests |-> r], 1)

\* C6: under every interleaving of POST /activity and POST /quiz-progress requests the
\* table holds at most one record per (userId, subject, modality) triple.
C6_OneRecordPerTriple ==
    \A i, j \in 1..Len(activity_logs) :
        i # j => Triple(activity_logs[i]) # Triple(activity_logs[j])

\* C7: once all of a set of successful POST /activity requests have completed, the
\* reading time and the playback count stored for a triple (summed over the rows of the
\* triple) equal the sums of the values submitted for it.
C7_NoLostUpdate ==
    (AllDone /\ AllSuccessfulActivity) =>
        \A r \in Requests :
            /\ StoredReadingTime(RequestTriple(r)) = SubmittedReadingTime(RequestTriple(r))
            /\ StoredPlayback(RequestTriple(r)) = SubmittedPlayback(RequestTriple(r))

\* C8: with no deletion, the reading time and the playback count of an existing record
\* never decrease from one state to the next.
C8_NeverDecrease ==
    [][\A i \in 1..Len(activity_logs) : \A j \in 1..Len(activity_logs') :
          activity_logs[i].id = activity_logs'[j].id =>
            /\ Or0(activity_logs'[j].reading_time) >= Or0(activity_logs[i].reading_time)
            /\ Or0(activity_logs'[j].playback_time) >= Or0(activity_logs[i].playback_time)]_vars

\* request r of POST /activity performs its write in this step
ActivityWrites(r) ==
    /\ reqs[r].kind = "activity" /\ reqs[r].pc = "write"
    /\ reqs'[r].pc = "done" /\ reqs'[r].status \in {200, 201}

\* C22: a POST /activity on an existing record that supplies quiz_score or focus_level
\* replaces the stored value (0 included), one that supplies neither leaves both as they
\* are, and a first POST /activity stores the supplied quiz_score and focus_level as given.
C22_LatestValueWins ==
    [][\A r \in Requests : ActivityWrites(r) =>
          LET body == reqs[r].body
              written == activity_logs'[1]
          IN  IF reqs[r].existingRecord.found
              THEN LET old == activity_logs[RowWithId(activity_logs,
                                                      reqs[r].existingRecord.id)]
                   IN  /\ written.id = old.id
                       /\ written.quiz_score =
                            IF body.quiz_score # Null THEN body.quiz_score
                            ELSE old.quiz_score
                       /\ written.focus_level =
                            IF body.focus_level # Null THEN body.focus_level
                            ELSE old.focus_level
              ELSE /\ written.quiz_score = body.quiz_score
                   /\ written.focus_level = body.focus_level]_vars

====
